---- MODULE Spec2Model ----
(***************************************************************************)
(* A model of the geometry routines of FSLeyes (fsleyes/gl/routines.py),   *)
(* of the GLImageObject coordinate generators (fsleyes/gl/globject.py) and *)
(* of the bounds update of MeshOpts (fsleyes/displaycontext/meshopts.py).  *)
(*                                                                         *)
(* One call of one routine is one behaviour: Init draws the routine and    *)
(* its arguments, the actions are the steps of the routine's body, and the *)
(* call ends with pc = "done" (a value was returned, in ret) or            *)
(* pc = "raised" (an exception left the routine, in raised).  The caller   *)
(* may then call the routine once more, with the arguments it still holds. *)
(*                                                                         *)
(* The panels (PlotPanel, OverlayPlotPanel, MelodicClassificationPanel,    *)
(* EditTransformPanel) and the colour / alpha handlers of MeshOpts are     *)
(* objects that live across many events.  Each has a specification of its  *)
(* own, in which obj holds the objects and every action is one handler,    *)
(* run to its end on the event loop.                                       *)
(***************************************************************************)
EXTENDS Integers, Sequences, FiniteSets, TLC

VARIABLES
    args,      \* the arguments of the call; args.fn names the routine
    pc,        \* position in the routine's body
    locals,    \* the routine's local variables (a record)
    ret,       \* the returned value, NoValue until the routine returns
    raised,    \* the exception raised, "none" while there is none
    work,      \* how many times each expensive helper has been called so far
    prev,      \* what the call before this one, with the same arguments, came to
    obj        \* the panels and display objects, in the specifications about them

vars == <<args, pc, locals, ret, raised, work, prev, obj>>

NoValue == [none |-> TRUE]

NoWork == [axisBounds |-> 0, transform |-> 0, getTransform |-> 0, pointGrid |-> 0]

----------------------------------------------------------------------------
(* Bounds of the model.                                                    *)

\* largest xlen / ylen of a grid handed to samplePointsToTriangleStrip
MaxLen == 4

----------------------------------------------------------------------------
(* Small helpers.                                                          *)

Abs(k) == IF k < 0 THEN -k ELSE k

Min2(a, b) == IF a <= b THEN a ELSE b

Max2(a, b) == IF a >= b THEN a ELSE b

\* the (xax, yax) pairs a caller passes: two distinct axes of 0, 1, 2
AxisPairs == {<<0, 1>>, <<0, 2>>, <<1, 2>>}

\* a[ax] = v on a 3-vector whose axes are numbered from 0
SetAx(p, ax, v) == [p EXCEPT ![ax + 1] = v]

GetAx(p, ax) == p[ax + 1]

RECURSIVE Flatten(_)
\* ndarray.reshape(rows * cols, 3) of a (rows, cols, 3) array: row-major
Flatten(grid) ==
    IF grid = << >> THEN << >> ELSE Head(grid) \o Flatten(Tail(grid))

----------------------------------------------------------------------------
(* Floating-point arithmetic.                                              *)
(*                                                                         *)
(* A number is a record [n, d, e] standing for (n / d) * 2^e, with n and d *)
(* odd and coprime and d > 0 (zero is [0, 1, 0]), so that equal numbers    *)
(* are equal records.  A float of p significant bits is a number with      *)
(* d = 1 and |n| < 2^p.  Every arithmetic operation of the code is the     *)
(* exact operation followed by rounding to nearest, ties to even, as IEEE  *)
(* 754 has it.  numpy.float64 carries 53 significant bits and              *)
(* numpy.float32 carries 24; the model carries DoubleBits and SingleBits,  *)
(* and no exponent range.  d = 0 marks an infinity (x / 0).                *)

\* significant bits of the model's float64
DoubleBits == 10

\* significant bits of the model's float32
SingleBits == 6

RECURSIVE GCD(_, _)
GCD(a, b) == IF b = 0 THEN a ELSE GCD(b, a % b)

RECURSIVE Twos(_)
\* how many times 2 divides k (k > 0)
Twos(k) == IF k % 2 = 1 THEN 0 ELSE 1 + Twos(k \div 2)

RECURSIVE Bits(_)
\* the number of binary digits of k (k >= 0)
Bits(k) == IF k = 0 THEN 0 ELSE 1 + Bits(k \div 2)

Sign(k) == IF k < 0 THEN -1 ELSE IF k = 0 THEN 0 ELSE 1

QZero == [n |-> 0, d |-> 1, e |-> 0]

\* (n / d) * 2^e in normal form (d > 0)
QNorm(n, d, e) ==
    IF n = 0 THEN QZero
    ELSE LET tn == Twos(Abs(n))
             td == Twos(d)
             n1 == Abs(n) \div (2 ^ tn)
             d1 == d \div (2 ^ td)
             g  == GCD(n1, d1)
         IN  [n |-> Sign(n) * (n1 \div g), d |-> d1 \div g, e |-> e + tn - td]

\* the number k / 2^h, for integers k and h >= 0
Q(k, h) == QNorm(k, 1, -h)

QInt(k) == QNorm(k, 1, 0)

QInf == [n |-> 1, d |-> 0, e |-> 0]

IsFinite(a) == a.d # 0

QNeg(a) == [a EXCEPT !.n = -a.n]

QAdd(a, b) ==
    LET em == Min2(a.e, b.e)
    IN  QNorm(a.n * b.d * 2 ^ (a.e - em) + b.n * a.d * 2 ^ (b.e - em), a.d * b.d, em)

QSub(a, b) == QAdd(a, QNeg(b))

QMul(a, b) == QNorm(a.n * b.n, a.d * b.d, a.e + b.e)

\* a / b for b # 0
QDiv(a, b) == QNorm(a.n * b.d * Sign(b.n), a.d * Abs(b.n), a.e - b.e)

QAbs(a) == [a EXCEPT !.n = Abs(a.n)]

QLeq(a, b) == QSub(a, b).n <= 0

QMin(a, b) == IF QLeq(a, b) THEN a ELSE b

QMax(a, b) == IF QLeq(a, b) THEN b ELSE a

\* the largest integer <= a, for a >= 0
QFloor(a) ==
    IF a.e >= 0 THEN (a.n * 2 ^ a.e) \div a.d ELSE a.n \div (a.d * 2 ^ (-a.e))

\* x / y rounded to the nearest integer, ties to the even one (x >= 0, y > 0)
RoundHalfEven(x, y) ==
    LET q == x \div y
        r == x % y
    IN  IF 2 * r < y THEN q
        ELSE IF 2 * r > y THEN q + 1
        ELSE IF q % 2 = 0 THEN q ELSE q + 1

\* a rounded to p significant bits
Round(p, a) ==
    IF a.n = 0 \/ a.d = 0 THEN a
    ELSE LET m  == Abs(a.n)
             s0 == p - Bits(m) + Bits(a.d)
             up(s) == IF s >= 0 THEN 2 ^ s ELSE 1
             dn(s) == IF s < 0 THEN 2 ^ (-s) ELSE 1
             \* the s with 2^(p-1) <= (m / d) * 2^s < 2^p
             s  == CHOOSE t \in (s0 - 2)..(s0 + 2) :
                      /\ 2 ^ (p - 1) * a.d * dn(t) <= m * up(t)
                      /\ m * up(t) < 2 ^ p * a.d * dn(t)
         IN  QNorm(Sign(a.n) * RoundHalfEven(m * up(s), a.d * dn(s)), 1, a.e - s)

\* the result of one float64 operation
F64(a) == Round(DoubleBits, a)

\* a value stored in an array of dtype float32
F32(a) == Round(SingleBits, a)

IsF32(a) == a.d = 1 /\ Bits(Abs(a.n)) <= SingleBits

----------------------------------------------------------------------------
(* samplePointsToTriangleStrip (routines.py 164-325).                      *)
(*                                                                         *)
(* The coords argument is a regular ylen * xlen grid of sample centres.    *)
(* Coordinates are counted in half sample spacings, so that the centre of  *)
(* sample (row r, column c) is at (2c + 1, 2r + 1) on (xax, yax), and      *)
(* xpixdim = ypixdim = 2.                                                  *)

StripPixdim == 2

\* the coords argument, already in the shape coords.reshape(ylen, xlen, 3)
GridCoords(ylen, xlen, xax, yax) ==
    [r \in 1..ylen |->
        [c \in 1..xlen |->
            SetAx(SetAx(<<0, 0, 0>>, xax, 2 * (c - 1) + 1), yax, 2 * (r - 1) + 1)]]

StripArgs ==
    {[fn |-> "samplePointsToTriangleStrip",
      xlen |-> n, ylen |-> m, xax |-> ax[1], yax |-> ax[2],
      xpixdim |-> StripPixdim, ypixdim |-> StripPixdim,
      coords |-> GridCoords(m, n, ax[1], ax[2])] :
        n \in 1..MaxLen, m \in 1..MaxLen, ax \in AxisPairs}

\* coords.repeat(2, 0): every row twice, in place
Repeat2(grid) == [k \in 1..(2 * Len(grid)) |-> grid[(k + 1) \div 2]]

\* a slip in line 287: no column is added
AppendLastColumn_None(grid) == grid

\* np.append(a, a[:, -1:, :], 1): the last column once more at the end
AppendLastColumn(grid) ==
    [k \in 1..Len(grid) |-> Append(grid[k], grid[k][Len(grid[k])])]

\* np.append(a[:, :1, :], a, 1): the first column once more at the start
PrependFirstColumn(grid) ==
    [k \in 1..Len(grid) |-> <<grid[k][1]>> \o grid[k]]

\* lines 287-299: the world coordinates move from the sample centres to the
\* sample corners
WorldCorners(grid, xax, yax, xpixdim, ypixdim) ==
    LET ext == AppendLastColumn(grid)
        ncol == Len(ext[1])
        shifted == [k \in 1..Len(ext) |->
                      [c \in 1..ncol |->
                          IF c = ncol
                          THEN SetAx(ext[k][c], xax, GetAx(ext[k][c], xax) + xpixdim)
                          ELSE ext[k][c]]]
    IN  [k \in 1..Len(shifted) |->
            [c \in 1..ncol |->
                LET p == shifted[k][c]
                    px == SetAx(p, xax, GetAx(p, xax) - xpixdim \div 2)
                IN  \* rows 0, 2, 4, ... are the TLA+ rows 1, 3, 5, ...
                    IF k % 2 = 1
                    THEN SetAx(px, yax, GetAx(px, yax) - ypixdim \div 2)
                    ELSE SetAx(px, yax, GetAx(px, yax) + ypixdim \div 2)]]

vertsPerRow(xlen) == 2 * (xlen + 1)

dVertsPerRow(xlen) == 2 * (xlen + 1) + 2

nindices(xlen, ylen) == ylen * dVertsPerRow(xlen) - 2

\* lines 273-305: everything up to the index loop
StripPrepare ==
    /\ args.fn = "samplePointsToTriangleStrip"
    /\ pc = "start"
    /\ LET rep == Repeat2(args.coords)
       IN  locals' = [texCoords   |-> PrependFirstColumn(rep),
                      worldCoords |-> WorldCorners(rep, args.xax, args.yax,
                                                   args.xpixdim, args.ypixdim),
                      indices     |-> [k \in 1..nindices(args.xlen, args.ylen) |-> 0],
                      written     |-> {},
                      yi          |-> 0,
                      xi          |-> 0]
    /\ pc' = "loop"
    /\ UNCHANGED <<args, ret, raised, work>>
    /\ UNCHANGED <<prev, obj>>

\* a slip in line 320: the join skips a row
NextRowStart_SkipsRow(yi, xlen) == (yi + 2) * vertsPerRow(xlen)

\* the index written at ii + 3 (line 320): the first vertex of the next row
NextRowStart(yi, xlen) == (yi + 1) * vertsPerRow(xlen)

\* a slip in lines 318-320: the degenerate pair is never written
StripBody_NoJoin(l, xlen, ylen) ==
    LET ii == l.yi * dVertsPerRow(xlen) + 2 * l.xi
        vi == l.yi * vertsPerRow(xlen) + l.xi
    IN  [l EXCEPT !.indices = [[@ EXCEPT ![ii + 1] = vi] EXCEPT ![ii + 2] = vi + xlen + 1],
                  !.written = @ \cup {ii, ii + 1}]

\* lines 309-320: one pass of the loop body; indices[k] of the code is
\* indices[k + 1] here, written is the set of positions (from 0) assigned
StripBody(l, xlen, ylen) ==
    LET ii == l.yi * dVertsPerRow(xlen) + 2 * l.xi
        vi == l.yi * vertsPerRow(xlen) + l.xi
        pair == [[l.indices EXCEPT ![ii + 1] = vi] EXCEPT ![ii + 2] = vi + xlen + 1]
    IN  IF l.xi = xlen /\ l.yi < ylen - 1
        THEN [l EXCEPT !.indices = [[pair EXCEPT ![ii + 3] = vi + xlen + 1]
                                          EXCEPT ![ii + 4] = NextRowStart(l.yi, xlen)],
                       !.written = @ \cup {ii, ii + 1, ii + 2, ii + 3}]
        ELSE [l EXCEPT !.indices = pair,
                       !.written = @ \cup {ii, ii + 1}]

\* line 307: it.product(range(ylen), range(xlen + 1)), yi the outer loop
StripLoop ==
    /\ args.fn = "samplePointsToTriangleStrip"
    /\ pc = "loop"
    /\ locals.yi < args.ylen
    /\ LET l == StripBody(locals, args.xlen, args.ylen)
       IN  IF \E k \in l.written : k >= Len(locals.indices)
           THEN \* an assignment past the end of the array: IndexError
                /\ pc' = "raised"
                /\ raised' = "IndexError"
                /\ UNCHANGED locals
           ELSE /\ locals' = IF locals.xi < args.xlen
                             THEN [l EXCEPT !.xi = @ + 1]
                             ELSE [l EXCEPT !.xi = 0, !.yi = @ + 1]
                /\ UNCHANGED <<pc, raised>>
    /\ UNCHANGED <<args, ret, work>>
    /\ UNCHANGED <<prev, obj>>

\* lines 322-325: the loop is over; flatten both arrays and return
StripReturn ==
    /\ args.fn = "samplePointsToTriangleStrip"
    /\ pc = "loop"
    /\ locals.yi = args.ylen
    /\ ret' = [worldCoords |-> Flatten(locals.worldCoords),
               texCoords   |-> Flatten(locals.texCoords),
               indices     |-> locals.indices]
    /\ pc' = "done"
    /\ UNCHANGED <<args, locals, raised, work>>
    /\ UNCHANGED <<prev, obj>>

----------------------------------------------------------------------------
(* Claims about samplePointsToTriangleStrip.                               *)

StripDone == args.fn = "samplePointsToTriangleStrip" /\ pc = "done"

\* C1: for every grid of M = ylen rows and N = xlen columns the returned
\* vertex buffer and texture-coordinate buffer each hold (N+1)*2*M entries
\* and the returned index buffer holds M*(2*(N+1)+2) - 2 entries.
C1_StripBufferLengths ==
    /\ args.fn = "samplePointsToTriangleStrip" => pc # "raised"
    /\ StripDone =>
        /\ Len(ret.worldCoords) = (args.xlen + 1) * 2 * args.ylen
        /\ Len(ret.texCoords)   = (args.xlen + 1) * 2 * args.ylen
        /\ Len(ret.indices)     = args.ylen * (2 * (args.xlen + 1) + 2) - 2

\* C1 witness: a grid with several rows and several columns has been tessellated
C1_Witness ==
    /\ StripDone
    /\ args.ylen = 3 /\ args.xlen = 2
    /\ Len(ret.worldCoords) = 18 /\ Len(ret.indices) = 22

\* C2: every value of the returned index buffer is strictly less than the
\* length of the returned vertex buffer, and every position of the index
\* buffer was assigned by the loop.
C2_StripIndexBounds ==
    StripDone =>
        /\ \A k \in 1..Len(ret.indices) :
              ret.indices[k] >= 0 /\ ret.indices[k] < Len(ret.worldCoords)
        /\ locals.written = 0..(Len(ret.indices) - 1)

\* C2 witness: a strip of several rows whose last index is the last vertex
C2_Witness ==
    /\ StripDone
    /\ args.ylen >= 2
    /\ ret.indices[Len(ret.indices)] = Len(ret.worldCoords) - 1
    /\ Cardinality(locals.written) = Len(ret.indices)

\* the row of the grid a vertex index belongs to
StripRowOf(v) == v \div vertsPerRow(args.xlen)

\* the triangle a triangle strip forms at position k (from 1) of an index buffer
StripTriangle(idx, k) == <<idx[k], idx[k + 1], idx[k + 2]>>

Degenerate(t) == t[1] = t[2] \/ t[2] = t[3] \/ t[1] = t[3]

SpansRows(t) == Cardinality({StripRowOf(t[1]), StripRowOf(t[2]), StripRowOf(t[3])}) > 1

\* C3: row yi, column xi of the strip holds the pair (vi, vi+N+1) with
\* vi = yi*2*(N+1) + xi; after the last column of every row but the last,
\* vi+N+1 is repeated and the first vertex of the next row follows; and so
\* every triangle of the strip that uses indices of two rows is degenerate.
C3_StripLayout ==
    StripDone =>
        LET N == args.xlen
            M == args.ylen
            idx == ret.indices
            at(k) == idx[k + 1]
            rowStart(yi) == yi * (2 * (N + 1) + 2)
        IN  /\ \A yi \in 0..(M - 1) : \A xi \in 0..N :
                  LET vi == yi * 2 * (N + 1) + xi
                  IN  /\ at(rowStart(yi) + 2 * xi)     = vi
                      /\ at(rowStart(yi) + 2 * xi + 1) = vi + N + 1
            /\ \A yi \in 0..(M - 2) :
                  LET vi == yi * 2 * (N + 1) + N
                  IN  /\ at(rowStart(yi) + 2 * N + 2) = vi + N + 1
                      /\ at(rowStart(yi) + 2 * N + 3) = (yi + 1) * 2 * (N + 1)
            /\ \A k \in 1..(Len(idx) - 2) :
                  SpansRows(StripTriangle(idx, k)) => Degenerate(StripTriangle(idx, k))

\* C3 witness: a finished strip with a join, whose triangles across the join
\* are degenerate and whose triangles inside a row are not
C3_Witness ==
    /\ StripDone
    /\ args.ylen >= 2
    /\ \E k \in 1..(Len(ret.indices) - 2) :
          SpansRows(StripTriangle(ret.indices, k)) /\ Degenerate(StripTriangle(ret.indices, k))
    /\ \E k \in 1..(Len(ret.indices) - 2) : ~Degenerate(StripTriangle(ret.indices, k))

----------------------------------------------------------------------------
(* transform.axisBounds and transform.transform (fsl.utils.transform), as  *)
(* routines.py calls them.  An affine is a scale and an offset per axis    *)
(* (a 4x4 matrix that is diagonal in its upper 3x3 block), as the          *)
(* voxel-to-display matrices of the 'id' and 'pixdim' display spaces are.  *)

Half == Q(1, 1)

One == QInt(1)

IdentityXform == [scale |-> <<One, One, One>>, offset |-> <<QZero, QZero, QZero>>]

\* every axis flipped, and the origin moved by one display unit
FlipXform == [scale |-> <<QInt(-1), QInt(-1), QInt(-1)>>,
              offset |-> <<One, One, One>>]

\* voxels of half a display unit
HalfXform == [scale |-> <<Half, Half, Half>>, offset |-> <<QZero, QZero, QZero>>]

\* voxels of three display units, as in a 'pixdim' display space
Pixdim3Xform == [scale |-> <<QInt(3), QInt(3), QInt(3)>>,
                 offset |-> <<QZero, QZero, QZero>>]

\* the inverse of a diagonal affine: x = (y - offset) / scale
InvertXform(xf) ==
    [scale  |-> [a \in 1..3 |-> F64(QDiv(One, xf.scale[a]))],
     offset |-> [a \in 1..3 |-> F64(QNeg(QDiv(xf.offset[a], xf.scale[a])))]]

\* one coordinate through an affine: scale * x + offset
TransformAx(x, xf, ax) == F64(QAdd(F64(QMul(GetAx(xf.scale, ax), x)), GetAx(xf.offset, ax)))

\* transform.transform(p, xform) for one point
Transform(p, xf) == [a \in 1..3 |-> TransformAx(p[a], xf, a - 1)]

\* another convention: the grid centred on the origin
VoxelEnds_Centred(n, origin) ==
    <<QNeg(QMul(Half, QInt(n))), QMul(Half, QInt(n))>>

\* the two ends, in voxel coordinates, of a grid of n voxels along one
\* axis: a voxel at x occupies (x - 0.5, x + 0.5) when the origin is its
\* centre and (x, x + 1) when the origin is its corner (routines.py 412-421)
VoxelEnds(n, origin) ==
    IF origin = "centre"
    THEN <<QNeg(Half), QSub(QInt(n), Half)>>
    ELSE <<QZero, QInt(n)>>

\* transform.axisBounds(shape, xform, ax, origin, boundary=None): the
\* smallest and the largest display coordinate, along axis ax, of the
\* corners of the grid
axisBounds(shape, xf, ax, origin) ==
    LET ends == VoxelEnds(GetAx(shape, ax), origin)
        a == TransformAx(ends[1], xf, ax)
        b == TransformAx(ends[2], xf, ax)
    IN  <<QMin(a, b), QMax(a, b)>>

----------------------------------------------------------------------------
(* calculateSamplePoints (routines.py 89-161).                             *)

\* largest extent of the sampled data along an axis, in voxels
MaxDim == 4

\* the resolutions a caller asks for: finer than a voxel (17/64), a voxel,
\* and coarser than some of the grids (3)
Resolutions == {Q(17, 6), One, QInt(3)}

SampleArgs ==
    {[fn |-> "calculateSamplePoints",
      shape |-> SetAx(SetAx(<<4, 4, 4>>, ax[1], nx), ax[2], ny),
      resolution |-> SetAx(SetAx(<<One, One, One>>, ax[1], rx), ax[2], ry),
      xform |-> xf, xax |-> ax[1], yax |-> ax[2], origin |-> o] :
        nx \in 1..MaxDim, ny \in 1..MaxDim,
        rx \in Resolutions, ry \in Resolutions,
        xf \in {IdentityXform, FlipXform}, ax \in {<<0, 1>>, <<1, 2>>},
        o \in {"centre", "corner"}}

\* lines 137-138: np.floor((max - min) / res); the count is a float whose
\* value is an integer
NumSamples(lo, hi, res) == QFloor(F64(QDiv(F64(QSub(hi, lo)), res)))

\* a slip in lines 143-144: the extent is divided by one count too many
AdjustedRes_OffByOne(lo, hi, count) ==
    IF count = 0 THEN QInf ELSE F64(QDiv(F64(QSub(hi, lo)), QInt(count + 1)))

\* lines 143-144: (max - min) / count.  The operands are numpy floats, so a
\* count of 0 gives an infinity (and a RuntimeWarning), not an exception
AdjustedRes(lo, hi, count) ==
    IF count = 0 THEN QInf ELSE F64(QDiv(F64(QSub(hi, lo)), QInt(count)))

\* np.linspace(start, stop, num): num values from start to stop inclusive
Linspace(start, stop, num) ==
    LET div == num - 1
        delta == F64(QSub(stop, start))
        step == F64(QDiv(delta, QInt(div)))
        y(i) == IF num > 1
                THEN IF step = QZero
                     THEN F64(QMul(F64(QDiv(QInt(i), QInt(div))), delta))
                     ELSE F64(QMul(QInt(i), step))
                ELSE F64(QMul(QInt(i), delta))
    IN  [k \in 1..num |->
            IF num > 1 /\ k = num THEN stop ELSE F64(QAdd(y(k - 1), start))]

\* lines 148-153: the centres of the samples along one axis
SampleCentres(lo, hi, res, count) ==
    IF count = 0 THEN << >>
    ELSE Linspace(F64(QAdd(lo, F64(QMul(Half, res)))),
                  F64(QSub(hi, F64(QMul(Half, res)))),
                  count)

\* a slip in lines 155-159: the grid is flattened column by column
SampleCoords_ColumnMajor(worldX, worldY, xax, yax) ==
    [k \in 1..(Len(worldX) * Len(worldY)) |->
        SetAx(SetAx(<<QZero, QZero, QZero>>,
                    xax, F32(worldX[((k - 1) \div Len(worldY)) + 1])),
                    yax, F32(worldY[((k - 1) % Len(worldY)) + 1]))]

\* lines 155-159: np.meshgrid, flattened row by row into a float32 array
\* that is zero on the third axis
SampleCoords(worldX, worldY, xax, yax) ==
    [k \in 1..(Len(worldX) * Len(worldY)) |->
        SetAx(SetAx(<<QZero, QZero, QZero>>,
                    xax, F32(worldX[((k - 1) % Len(worldX)) + 1])),
                    yax, F32(worldY[((k - 1) \div Len(worldX)) + 1]))]

\* lines 125-144: the bounds, the counts and the adjusted resolutions
SampleCounts ==
    /\ args.fn = "calculateSamplePoints"
    /\ pc = "start"
    /\ LET xb == axisBounds(args.shape, args.xform, args.xax, args.origin)
           yb == axisBounds(args.shape, args.xform, args.yax, args.origin)
           xn == NumSamples(xb[1], xb[2], GetAx(args.resolution, args.xax))
           yn == NumSamples(yb[1], yb[2], GetAx(args.resolution, args.yax))
       IN  locals' = [xmin |-> xb[1], xmax |-> xb[2],
                      ymin |-> yb[1], ymax |-> yb[2],
                      xNumSamples |-> xn, yNumSamples |-> yn,
                      xres |-> AdjustedRes(xb[1], xb[2], xn),
                      yres |-> AdjustedRes(yb[1], yb[2], yn),
                      divByZero |-> (xn = 0 \/ yn = 0)]
    /\ work' = [work EXCEPT !.axisBounds = @ + 2]
    /\ pc' = "grid"
    /\ UNCHANGED <<args, ret, raised>>
    /\ UNCHANGED <<prev, obj>>

\* lines 146-161: the grid of sample centres, and the return
SampleGrid ==
    /\ args.fn = "calculateSamplePoints"
    /\ pc = "grid"
    /\ LET worldX == SampleCentres(locals.xmin, locals.xmax, locals.xres,
                                   locals.xNumSamples)
           worldY == SampleCentres(locals.ymin, locals.ymax, locals.yres,
                                   locals.yNumSamples)
       IN  ret' = [coords |-> SampleCoords(worldX, worldY, args.xax, args.yax),
                   xres |-> locals.xres, yres |-> locals.yres,
                   xNumSamples |-> locals.xNumSamples,
                   yNumSamples |-> locals.yNumSamples]
    /\ pc' = "done"
    /\ UNCHANGED <<args, locals, raised, work>>
    /\ UNCHANGED <<prev, obj>>

----------------------------------------------------------------------------
(* Claims about calculateSamplePoints.                                     *)

SampleDone == args.fn = "calculateSamplePoints" /\ pc = "done"

\* 2^-k as a number
TwoToMinus(k) == Q(1, k)

\* |a - b| <= tol
Within(a, b, tol) == QLeq(QAbs(QSub(a, b)), tol)

\* C4: the sample count on each axis is floor((max-min)/resolution) clamped
\* to at least 1; a resolution larger than the extent gives a count of 1 and
\* no division by zero.
C4_CountClampedToOne ==
    SampleDone =>
        LET fx == NumSamples(locals.xmin, locals.xmax, GetAx(args.resolution, args.xax))
            fy == NumSamples(locals.ymin, locals.ymax, GetAx(args.resolution, args.yax))
        IN  /\ ret.xNumSamples = Max2(1, fx)
            /\ ret.yNumSamples = Max2(1, fy)
            /\ ~locals.divByZero
            /\ IsFinite(ret.xres) /\ IsFinite(ret.yres)

\* C5, as claimed: count * step, computed as the program computes it, is
\* max - min exactly.
C5_CountTimesStepExact ==
    SampleDone =>
        /\ ret.xNumSamples >= 1 =>
              F64(QMul(QInt(ret.xNumSamples), ret.xres)) = QSub(locals.xmax, locals.xmin)
        /\ ret.yNumSamples >= 1 =>
              F64(QMul(QInt(ret.yNumSamples), ret.yres)) = QSub(locals.ymax, locals.ymin)

\* count * step against the extent hi - lo, up to rounding: the product
\* itself and the product as the program's arithmetic rounds it
SpansUpToRounding(count, step, lo, hi) ==
    LET extent == QSub(hi, lo)
        tol == QMul(extent, TwoToMinus(DoubleBits - 2))
    IN  /\ Within(QMul(QInt(count), step), extent, tol)
        /\ Within(F64(QMul(QInt(count), step)), extent, tol)

\* C5, amended: whenever the count is at least 1, count * step equals
\* max - min up to floating-point rounding: the relative error is at most
\* 2^-(p-2) for floats of p significant bits.
C5_CountTimesStepRounded ==
    SampleDone =>
        /\ ret.xNumSamples >= 1 =>
              SpansUpToRounding(ret.xNumSamples, ret.xres, locals.xmin, locals.xmax)
        /\ ret.yNumSamples >= 1 =>
              SpansUpToRounding(ret.yNumSamples, ret.yres, locals.ymin, locals.ymax)

\* C5 witness: a step that was adjusted away from the requested resolution
\* and that rounding keeps from dividing the extent exactly
C5_Witness ==
    /\ SampleDone
    /\ ret.xNumSamples >= 2
    /\ ret.xres # GetAx(args.resolution, args.xax)
    /\ QMul(QInt(ret.xNumSamples), ret.xres) # QSub(locals.xmax, locals.xmin)
    /\ SpansUpToRounding(ret.xNumSamples, ret.xres, locals.xmin, locals.xmax)

\* the coordinate lo + (i + 1/2) * step, as a number
CentreOf(lo, i, step) == QAdd(lo, QMul(QAdd(QInt(i), Half), step))

\* the point at position yi * xcount + xi (from 0) of the returned array
SamplePointAt(yi, xi) == ret.coords[yi * ret.xNumSamples + xi + 1]

\* the axis that is neither xax nor yax
DepthAxis == 3 - args.xax - args.yax

\* C6, as claimed: ycount * xcount points, row by row; the point at
\* yi * xcount + xi is at xmin + (xi + 1/2) * xstep and
\* ymin + (yi + 1/2) * ystep, and at 0 on the depth axis.
C6_SampleGridExact ==
    SampleDone =>
        /\ Len(ret.coords) = ret.yNumSamples * ret.xNumSamples
        /\ \A yi \in 0..(ret.yNumSamples - 1) : \A xi \in 0..(ret.xNumSamples - 1) :
              /\ GetAx(SamplePointAt(yi, xi), args.xax) = CentreOf(locals.xmin, xi, ret.xres)
              /\ GetAx(SamplePointAt(yi, xi), args.yax) = CentreOf(locals.ymin, yi, ret.yres)
              /\ GetAx(SamplePointAt(yi, xi), DepthAxis) = QZero

\* the rounding a stored coordinate may carry: half a unit in the last
\* place of a float32 of the size of the bounds, twice over
CoordTol(lo, hi) ==
    QMul(QMax(QAbs(lo), QAbs(hi)), TwoToMinus(SingleBits - 1))

\* C6, amended: ycount * xcount points, row by row; the point at
\* yi * xcount + xi is at xmin + (xi + 1/2) * xstep and
\* ymin + (yi + 1/2) * ystep up to float32 rounding (an error of at most
\* 2^-(s-1) times the largest bound, for a float32 of s significant bits),
\* and at exactly 0 on the depth axis.
C6_SampleGridRounded ==
    SampleDone =>
        /\ Len(ret.coords) = ret.yNumSamples * ret.xNumSamples
        /\ \A yi \in 0..(ret.yNumSamples - 1) : \A xi \in 0..(ret.xNumSamples - 1) :
              /\ Within(GetAx(SamplePointAt(yi, xi), args.xax),
                        CentreOf(locals.xmin, xi, ret.xres),
                        CoordTol(locals.xmin, locals.xmax))
              /\ Within(GetAx(SamplePointAt(yi, xi), args.yax),
                        CentreOf(locals.ymin, yi, ret.yres),
                        CoordTol(locals.ymin, locals.ymax))
              /\ IsF32(GetAx(SamplePointAt(yi, xi), args.xax))
              /\ IsF32(GetAx(SamplePointAt(yi, xi), args.yax))
              /\ GetAx(SamplePointAt(yi, xi), DepthAxis) = QZero

\* C6 witness: a grid of several rows and columns, with different counts on
\* the two axes, one of whose stored coordinates was rounded
C6_Witness ==
    /\ SampleDone
    /\ ret.xNumSamples >= 3 /\ ret.yNumSamples >= 2
    /\ ret.xNumSamples # ret.yNumSamples
    /\ Len(ret.coords) = ret.yNumSamples * ret.xNumSamples
    /\ \E xi \in 0..(ret.xNumSamples - 1) :
          GetAx(SamplePointAt(1, xi), args.xax) # CentreOf(locals.xmin, xi, ret.xres)

\* the call of the concrete case: shape (4,4,4), identity, axes (0,1),
\* resolution 1, origin 'centre'
ConcreteCase ==
    /\ SampleDone
    /\ args.shape = <<4, 4, 4>>
    /\ args.xform = IdentityXform
    /\ args.xax = 0 /\ args.yax = 1
    /\ args.resolution = <<One, One, One>>
    /\ args.origin = "centre"

\* the X values of the returned points
SampleXValues == {GetAx(ret.coords[k], args.xax) : k \in 1..Len(ret.coords)}

\* C7, as claimed: the concrete case returns xcount = ycount = 4 and 16
\* points whose X values are -1.5, -0.5, 0.5, 1.5 (boundary -2..2).
C7_ConcreteCaseCentredOnZero ==
    ConcreteCase =>
        /\ ret.xNumSamples = 4 /\ ret.yNumSamples = 4
        /\ Len(ret.coords) = 16
        /\ SampleXValues = {Q(-3, 1), Q(-1, 1), Q(1, 1), Q(3, 1)}

\* C7, amended: the concrete case returns xcount = ycount = 4 and 16 points
\* whose X values are 0, 1, 2, 3: the sample centres, half a step inside the
\* boundary interval -0.5..3.5.
C7_ConcreteCaseVoxelCentres ==
    ConcreteCase =>
        /\ ret.xNumSamples = 4 /\ ret.yNumSamples = 4
        /\ Len(ret.coords) = 16
        /\ SampleXValues = {QInt(0), QInt(1), QInt(2), QInt(3)}
        /\ locals.xmin = Q(-1, 1) /\ locals.xmax = Q(7, 1)
        /\ ret.xres = One

\* C7 witness: the concrete case has returned
C7_Witness == ConcreteCase /\ Len(ret.coords) = 16

----------------------------------------------------------------------------
(* slice2D (routines.py 379-508).                                          *)

\* largest extent of the sliced data along an axis, in voxels
MaxShape == 2

Geometries == {"triangles", "square", "circle"}

Origins == {"centre", "corner", "middle"}

SliceArgs ==
    {[fn |-> "slice2D",
      dataShape |-> SetAx(SetAx(<<2, 2, 2>>, ax[1], nx), ax[2], ny),
      xax |-> ax[1], yax |-> ax[2], zpos |-> z,
      voxToDisplayMat |-> xf, displayToVoxMat |-> InvertXform(xf),
      geometry |-> g, origin |-> o] :
        nx \in 1..MaxShape, ny \in 1..MaxShape, ax \in AxisPairs,
        z \in {QZero, Q(3, 1), QInt(2)},
        xf \in {IdentityXform, FlipXform, HalfXform, Pixdim3Xform},
        g \in Geometries, o \in Origins}

\* a slip in lines 472-474: the second triangle repeats the first
TriangleVertices_SameTriangle(xmin, xmax, ymin, ymax) ==
    << <<xmin, ymin>>, <<xmin, ymax>>, <<xmax, ymin>>,
       <<xmin, ymin>>, <<xmin, ymax>>, <<xmax, ymin>> >>

\* lines 467-474: the six vertices of the two triangles, on (xax, yax)
TriangleVertices(xmin, xmax, ymin, ymax) ==
    << <<xmin, ymin>>, <<xmin, ymax>>, <<xmax, ymin>>,
       <<xmax, ymin>>, <<xmin, ymax>>, <<xmax, ymax>> >>

\* lines 477-482: the four vertices of the square, on (xax, yax)
SquareVertices(xmin, xmax, ymin, ymax) ==
    << <<xmin, ymin>>, <<xmax, ymin>>, <<xmax, ymax>>, <<xmin, ymax>> >>

\* np.zeros((n, 3), dtype=np.float32) with the (xax, yax) columns set from
\* xy, and line 486: the zax column set to zpos
SliceVertexArray(xy, xax, yax, zpos) ==
    [k \in 1..Len(xy) |->
        SetAx(SetAx(SetAx(<<QZero, QZero, QZero>>,
                          xax, F32(xy[k][1])),
                          yax, F32(xy[k][2])),
                          3 - xax - yax, F32(zpos))]

\* lines 459-463.  An origin that is neither 'centre' nor 'corner' goes to
\* transform.axisBounds first: that function (not part of this repository)
\* either rejects it, or takes it for one of the two conventions.
SliceBounds ==
    /\ args.fn = "slice2D"
    /\ pc = "start"
    /\ \E o \in {"centre", "corner", "rejected"} :
          /\ args.origin \in {"centre", "corner"} => o = args.origin
          /\ IF o = "rejected"
             THEN /\ pc' = "raised"
                  /\ raised' = "ValueError"
                  /\ UNCHANGED <<locals, work>>
             ELSE /\ LET xb == axisBounds(args.dataShape, args.voxToDisplayMat, args.xax, o)
                         yb == axisBounds(args.dataShape, args.voxToDisplayMat, args.yax, o)
                     IN  locals' = [zax |-> 3 - args.xax - args.yax,
                                    xmin |-> xb[1], xmax |-> xb[2],
                                    ymin |-> yb[1], ymax |-> yb[2]]
                  /\ work' = [work EXCEPT !.axisBounds = @ + 2]
                  /\ pc' = "vertices"
                  /\ UNCHANGED raised
    /\ UNCHANGED <<args, ret>>
    /\ UNCHANGED <<prev, obj>>

\* lines 465-486
SliceVertices ==
    /\ args.fn = "slice2D"
    /\ pc = "vertices"
    /\ IF args.geometry = "triangles"
       THEN /\ locals' = [vertices |->
                            SliceVertexArray(TriangleVertices(locals.xmin, locals.xmax,
                                                              locals.ymin, locals.ymax),
                                             args.xax, args.yax, args.zpos)] @@ locals
            /\ pc' = "transform"
            /\ UNCHANGED raised
       ELSE IF args.geometry = "square"
       THEN /\ locals' = [vertices |->
                            SliceVertexArray(SquareVertices(locals.xmin, locals.xmax,
                                                            locals.ymin, locals.ymax),
                                             args.xax, args.yax, args.zpos)] @@ locals
            /\ pc' = "transform"
            /\ UNCHANGED raised
       ELSE /\ pc' = "raised"
            /\ raised' = "ValueError"
            /\ UNCHANGED locals
    /\ UNCHANGED <<args, ret, work>>
    /\ UNCHANGED <<prev, obj>>

\* line 488
SliceTransform ==
    /\ args.fn = "slice2D"
    /\ pc = "transform"
    /\ locals' = [voxCoords |->
                    [k \in 1..Len(locals.vertices) |->
                        Transform(locals.vertices[k], args.displayToVoxMat)]] @@ locals
    /\ work' = [work EXCEPT !.transform = @ + 1]
    /\ pc' = "texture"
    /\ UNCHANGED <<args, ret, raised>>
    /\ UNCHANGED <<prev, obj>>

\* a slip in line 495: the half-voxel offset left out
AddHalf_None(coords) == coords

\* voxCoords + 0.5 on every axis of every row
AddHalf(coords) == [k \in 1..Len(coords) |-> [a \in 1..3 |-> F64(QAdd(coords[k][a], Half))]]

\* coords / dataShape, axis by axis
DivideByShape(coords, shape) ==
    [k \in 1..Len(coords) |-> [a \in 1..3 |-> F64(QDiv(coords[k][a], QInt(shape[a])))]]

\* a slip in line 503: the corner texture coordinates without the offset
CornerTexCoords_NoOffset(voxCoords, shape) == DivideByShape(voxCoords, shape)

\* line 503: the texture coordinates when the origin is the voxel corner
CornerTexCoords(voxCoords, shape) == DivideByShape(AddHalf(voxCoords), shape)

\* lines 494-508
SliceTexCoords ==
    /\ args.fn = "slice2D"
    /\ pc = "texture"
    /\ IF args.origin = "centre"
       THEN /\ ret' = [vertices  |-> locals.vertices,
                       voxCoords |-> AddHalf(locals.voxCoords),
                       texCoords |-> DivideByShape(AddHalf(locals.voxCoords),
                                                   args.dataShape)]
            /\ pc' = "done"
            /\ UNCHANGED raised
       ELSE IF args.origin = "corner"
       THEN /\ ret' = [vertices  |-> locals.vertices,
                       voxCoords |-> locals.voxCoords,
                       texCoords |-> CornerTexCoords(locals.voxCoords, args.dataShape)]
            /\ pc' = "done"
            /\ UNCHANGED raised
       ELSE /\ pc' = "raised"
            /\ raised' = "ValueError"
            /\ UNCHANGED ret
    /\ UNCHANGED <<args, locals, work>>
    /\ UNCHANGED <<prev, obj>>

----------------------------------------------------------------------------
(* GLImageObject.generateVoxelCoordinates2D and generateVoxelCoordinates3D *)
(* (globject.py 633-721).  The grid itself comes from routines that are    *)
(* called here and not modelled; what is modelled is the order of the      *)
(* steps.                                                                  *)

Spaces == {"voxel", "display", "world"}

GenVoxArgs ==
    {[fn |-> f, space |-> sp, transform |-> t] :
        f \in {"generateVoxelCoordinates2D", "generateVoxelCoordinates3D"},
        sp \in Spaces, t \in {"id", "pixdim", "affine"}}

IsGenVox == args.fn \in {"generateVoxelCoordinates2D", "generateVoxelCoordinates3D"}

\* a slip in lines 659 and 705: any space is taken, as 'display'
SpaceAccepted_Any(space) == TRUE

\* the check on space must let exactly these through (lines 659, 705)
SpaceAccepted(space) == space \in {"voxel", "display"}

\* lines 659-660 and 705-706
GenVoxCheckSpace ==
    /\ IsGenVox
    /\ pc = "start"
    /\ IF SpaceAccepted(args.space)
       THEN pc' = "transforms" /\ UNCHANGED raised
       ELSE pc' = "raised" /\ raised' = "ValueError"
    /\ UNCHANGED <<args, locals, ret, work>>
    /\ UNCHANGED <<prev, obj>>

\* lines 662-675 and 709-712: the two opts.getTransform calls
GenVoxGetTransforms ==
    /\ IsGenVox
    /\ pc = "transforms"
    /\ work' = [work EXCEPT !.getTransform = @ + 2]
    /\ pc' = "grid"
    /\ UNCHANGED <<args, locals, ret, raised>>
    /\ UNCHANGED <<prev, obj>>

\* lines 677-685 and 714: glroutines.pointGrid / pointGrid3D
GenVoxGrid ==
    /\ IsGenVox
    /\ pc = "grid"
    /\ work' = [work EXCEPT !.pointGrid = @ + 1]
    /\ pc' = "convert"
    /\ UNCHANGED <<args, locals, ret, raised>>
    /\ UNCHANGED <<prev, obj>>

\* lines 687-693 and 716-721: the 2D routine transforms the grid to voxel
\* coordinates when asked for them; the 3D routine does not
GenVoxReturn ==
    /\ IsGenVox
    /\ pc = "convert"
    /\ work' = IF args.fn = "generateVoxelCoordinates2D" /\ args.space = "voxel"
               THEN [work EXCEPT !.transform = @ + 1]
               ELSE work
    /\ ret' = [voxels |-> args.space]
    /\ pc' = "done"
    /\ UNCHANGED <<args, locals, raised>>
    /\ UNCHANGED <<prev, obj>>

----------------------------------------------------------------------------
(* Claims about slice2D and the voxel coordinate generators.               *)

SliceDone == args.fn = "slice2D" /\ pc = "done"

\* the (xax, yax) coordinates of row k of the returned vertices
SliceXY(k) == <<GetAx(ret.vertices[k], args.xax), GetAx(ret.vertices[k], args.yax)>>

\* twice the area of the triangle of three points of the plane
TwiceArea(a, b, c) ==
    QAbs(QSub(QMul(QSub(b[1], a[1]), QSub(c[2], a[2])),
              QMul(QSub(c[1], a[1]), QSub(b[2], a[2]))))

BadEnum ==
    \/ args.fn = "slice2D" /\ args.geometry \notin {"triangles", "square"}
    \/ args.fn = "slice2D" /\ args.origin \notin {"centre", "corner"}
    \/ IsGenVox /\ args.space \notin {"voxel", "display"}

\* C9, as claimed: an unrecognised enum value is rejected before any
\* computation and never silently defaulted: slice2D raises before any
\* axis-bounds calculation or transform, generateVoxelCoordinates2D/3D
\* raise before any transform is looked up or any grid is generated.
C9_RejectedBeforeAnyComputation ==
    /\ BadEnum => pc # "done"
    /\ (args.fn = "slice2D" /\ pc = "raised") =>
          work.axisBounds = 0 /\ work.transform = 0
    /\ (IsGenVox /\ pc = "raised") =>
          work.getTransform = 0 /\ work.pointGrid = 0 /\ work.transform = 0

\* C9, amended: an unrecognised enum value is rejected with an
\* invalid-argument error and never silently defaulted: no such call
\* returns, and no call with recognised values raises.
\* generateVoxelCoordinates2D/3D raise before any transform is looked up or
\* any grid is generated.  slice2D raises later: for an unrecognised
\* geometry after the two axis-bounds calculations and before any transform;
\* for an unrecognised origin (and a recognised geometry) either inside the
\* first axisBounds call, before anything is calculated, or after the axis
\* bounds, the vertices and the inverse transform have been computed.
C9_RejectedNeverDefaulted ==
    /\ BadEnum => pc # "done"
    /\ pc = "raised" => raised = "ValueError" /\ ret = NoValue /\ BadEnum
    /\ pc # "raised" => raised = "none"
    /\ (IsGenVox /\ pc = "raised") =>
          work.getTransform = 0 /\ work.pointGrid = 0 /\ work.transform = 0
    /\ (args.fn = "slice2D" /\ pc = "raised") =>
          \/ work.axisBounds = 0 /\ work.transform = 0
                /\ args.origin \notin {"centre", "corner"}
          \/ work.axisBounds = 2 /\ work.transform = 0
                /\ args.geometry \notin {"triangles", "square"}
          \/ work.axisBounds = 2 /\ work.transform = 1
                /\ args.geometry \in {"triangles", "square"}
                /\ args.origin \notin {"centre", "corner"}

\* C9 witness: slice2D has raised for an unrecognised geometry, the origin
\* being recognised, with both axis bounds already calculated
C9_Witness ==
    /\ args.fn = "slice2D"
    /\ pc = "raised"
    /\ args.origin \in {"centre", "corner"}
    /\ args.geometry = "circle"
    /\ work.axisBounds = 2

\* 0 <= a <= 1
InUnitInterval(a) == QLeq(QZero, a) /\ QLeq(a, One)

\* C10: with origin 'corner', every returned texture coordinate on the two
\* in-plane axes lies in [0, 1] (the generated vertices lie within the
\* voxel-corner bounds of the grid).
C10_CornerTexCoordsInUnitRange ==
    (SliceDone /\ args.origin = "corner") =>
        \A k \in 1..Len(ret.texCoords) :
            /\ InUnitInterval(GetAx(ret.texCoords[k], args.xax))
            /\ InUnitInterval(GetAx(ret.texCoords[k], args.yax))

----------------------------------------------------------------------------
(* Claims about the voxel and texture coordinates of slice2D.              *)

\* the inverse-transformed vertices, v, of the call
SliceV == locals.voxCoords

\* C11: with origin 'centre', the returned display vertices, passed through
\* the display-to-voxel affine and offset by half a voxel again, give
\* exactly the returned voxCoords array, row for row.
C11_SliceRoundTrip ==
    (SliceDone /\ args.origin = "centre") =>
        /\ Len(ret.voxCoords) = Len(ret.vertices)
        /\ \A k \in 1..Len(ret.vertices) : \A a \in 1..3 :
              ret.voxCoords[k][a] =
                  F64(QAdd(Transform(ret.vertices[k], args.displayToVoxMat)[a], Half))

\* C11 witness: a centred slice through a transform that is not the
\* identity, whose voxel coordinates are not its display vertices
C11_Witness ==
    /\ SliceDone
    /\ args.origin = "centre"
    /\ args.voxToDisplayMat = Pixdim3Xform
    /\ \E k \in 1..Len(ret.vertices) : ret.voxCoords[k] # ret.vertices[k]

\* C12 as stated: voxCoords and texCoords are derived from v as described,
\* the texture coordinates of the two conventions agree for the same v and
\* the voxel coordinates of the two conventions differ by exactly 0.5.
C12_HalfVoxelOffsetExact ==
    SliceDone =>
        LET centre == AddHalf(SliceV)
            corner == SliceV
        IN  /\ args.origin = "centre" =>
                  /\ ret.voxCoords = centre
                  /\ ret.texCoords = DivideByShape(ret.voxCoords, args.dataShape)
            /\ args.origin = "corner" =>
                  /\ ret.voxCoords = corner
                  /\ ret.texCoords = DivideByShape(AddHalf(SliceV), args.dataShape)
            /\ DivideByShape(centre, args.dataShape) = CornerTexCoords(corner, args.dataShape)
            /\ \A k \in 1..Len(SliceV) : \A a \in 1..3 :
                  QSub(centre[k][a], corner[k][a]) = Half

\* what rounding v + 0.5 to a float can move the sum by
OffsetTol(v) == QMul(QAdd(QAbs(v), Half), TwoToMinus(DoubleBits))

\* C12, amended: as above, with the voxel coordinates of the two
\* conventions differing by 0.5 up to the rounding of the sum v + 0.5
\* (exactly 0.5 where v + 0.5 is a float).
C12_HalfVoxelOffsetRounded ==
    SliceDone =>
        LET centre == AddHalf(SliceV)
            corner == SliceV
        IN  /\ args.origin = "centre" =>
                  /\ ret.voxCoords = centre
                  /\ ret.texCoords = DivideByShape(ret.voxCoords, args.dataShape)
            /\ args.origin = "corner" =>
                  /\ ret.voxCoords = corner
                  /\ ret.texCoords = DivideByShape(AddHalf(SliceV), args.dataShape)
            /\ DivideByShape(centre, args.dataShape) = CornerTexCoords(corner, args.dataShape)
            /\ \A k \in 1..Len(SliceV) : \A a \in 1..3 :
                  /\ Within(QSub(centre[k][a], corner[k][a]), Half, OffsetTol(corner[k][a]))
                  /\ F64(QAdd(corner[k][a], Half)) = QAdd(corner[k][a], Half)
                        => QSub(centre[k][a], corner[k][a]) = Half

\* C12 witness: a finished slice with a coordinate whose half-voxel offset
\* is rounded, and one whose offset is exact
C12_Witness ==
    /\ SliceDone
    /\ \E k \in 1..Len(SliceV) : \E a \in 1..3 :
          QSub(AddHalf(SliceV)[k][a], SliceV[k][a]) # Half
    /\ \E k \in 1..Len(SliceV) : \E a \in 1..3 :
          QSub(AddHalf(SliceV)[k][a], SliceV[k][a]) = Half

----------------------------------------------------------------------------
(* broadcast (routines.py 568-620).                                        *)

\* most (depth, transform) pairs handed to broadcast
MaxReplicas == 2

\* np.array(a) makes a copy of its argument, so that the assignment of line
\* 608 writes to the routine's own array
NpArrayCopies_Never == FALSE

NpArrayCopies == TRUE

\* the geometries handed to broadcast: a triangle, a square drawn as two
\* triangles, and a triangle whose index array names a vertex that is not
\* there; the vertices are float32 values
BroadcastGeometries ==
    {[vertices |-> << <<QZero, QZero, QZero>>, <<One, QZero, One>>,
                      <<QZero, QInt(2), QInt(2)>> >>,
      indices  |-> <<0, 1, 2>>],
     [vertices |-> << <<QZero, QZero, One>>, <<QInt(2), QZero, One>>,
                      <<QInt(2), One, One>>, <<QZero, One, One>> >>,
      indices  |-> <<0, 1, 2, 0, 2, 3>>],
     [vertices |-> << <<One, QZero, QZero>>, <<QZero, One, QZero>>,
                      <<One, One, Half>> >>,
      indices  |-> <<0, 1, 5>>]}

\* a depth and the transform that goes with it; 65/64 is not a float32 of
\* SingleBits bits
BroadcastPairs ==
    {[zpos |-> z, xform |-> xf] :
        z \in {Q(3, 1), Q(65, 6)}, xf \in {FlipXform, Pixdim3Xform}}

RECURSIVE SeqsUpTo(_, _)
\* the sequences of at most n elements of S
SeqsUpTo(S, n) ==
    IF n = 0 THEN {<<>>}
    ELSE LET shorter == SeqsUpTo(S, n - 1)
         IN  shorter \cup {Append(q, x) : q \in {r \in shorter : Len(r) = n - 1}, x \in S}

BroadcastArgs ==
    {[fn |-> "broadcast", vertices |-> g.vertices, indices |-> g.indices,
      zposes |-> [k \in 1..Len(pairs) |-> pairs[k].zpos],
      xforms |-> [k \in 1..Len(pairs) |-> pairs[k].xform],
      zax |-> zax] :
        g \in BroadcastGeometries, pairs \in SeqsUpTo(BroadcastPairs, MaxReplicas),
        zax \in 0..2}

\* line 608: vertices[:, zax] = zpos, in the float32 vertex array
SetDepth(vertices, zax, zpos) ==
    [j \in 1..Len(vertices) |-> SetAx(vertices[j], zax, F32(zpos))]

\* a slip in line 613: the indices of every replica left as they came
OffsetIndices_None(indices, i, nverts) == indices

\* line 613: indices + i * nverts
OffsetIndices(indices, i, nverts) == [j \in 1..Len(indices) |-> indices[j] + i * nverts]

\* a[start:start + Len(rows)] = rows (start from 0)
SetSlice(a, start, rows) ==
    [k \in 1..Len(a) |->
        IF k > start /\ k <= start + Len(rows) THEN rows[k - start] ELSE a[k]]

\* lines 596-604
BroadcastPrepare ==
    /\ args.fn = "broadcast"
    /\ pc = "start"
    /\ LET nverts == Len(args.vertices)
           nidxs  == Len(args.indices)
           K      == Len(args.zposes)
       IN  locals' = [vertices      |-> args.vertices,
                      indices       |-> args.indices,
                      nverts        |-> nverts,
                      nidxs         |-> nidxs,
                      allTexCoords  |-> [k \in 1..(nverts * K) |-> <<QZero, QZero, QZero>>],
                      allVertCoords |-> [k \in 1..(nverts * K) |-> <<QZero, QZero, QZero>>],
                      allIndices    |-> [k \in 1..(nidxs * K) |-> 0],
                      i             |-> 0]
    /\ pc' = "loop"
    /\ UNCHANGED <<args, ret, raised, work>>
    /\ UNCHANGED <<prev, obj>>

\* lines 606-618: one pass of the loop over zip(zposes, xforms)
BroadcastLoop ==
    /\ args.fn = "broadcast"
    /\ pc = "loop"
    /\ locals.i < Min2(Len(args.zposes), Len(args.xforms))
    /\ LET i        == locals.i
           zpos     == args.zposes[i + 1]
           xform    == args.xforms[i + 1]
           vertices == SetDepth(locals.vertices, args.zax, zpos)
           vStart   == i * locals.nverts
           iStart   == i * locals.nidxs
       IN  /\ locals' = [locals EXCEPT
                  !.vertices      = vertices,
                  !.allIndices    = SetSlice(@, iStart,
                                             OffsetIndices(locals.indices, i, locals.nverts)),
                  !.allTexCoords  = SetSlice(@, vStart,
                                             [j \in 1..Len(vertices) |->
                                                 [a \in 1..3 |-> F32(vertices[j][a])]]),
                  !.allVertCoords = SetSlice(@, vStart,
                                             [j \in 1..Len(vertices) |->
                                                 [a \in 1..3 |->
                                                     F32(Transform(vertices[j], xform)[a])]]),
                  !.i             = i + 1]
           /\ args' = IF NpArrayCopies THEN args
                      ELSE [args EXCEPT !.vertices = vertices]
    /\ work' = [work EXCEPT !.transform = @ + 1]
    /\ UNCHANGED <<pc, ret, raised>>
    /\ UNCHANGED <<prev, obj>>

\* line 620
BroadcastReturn ==
    /\ args.fn = "broadcast"
    /\ pc = "loop"
    /\ locals.i >= Min2(Len(args.zposes), Len(args.xforms))
    /\ ret' = [allVertCoords |-> locals.allVertCoords,
               allTexCoords  |-> locals.allTexCoords,
               allIndices    |-> locals.allIndices]
    /\ pc' = "done"
    /\ UNCHANGED <<args, locals, raised, work>>
    /\ UNCHANGED <<prev, obj>>

----------------------------------------------------------------------------
(* Claims about broadcast.                                                 *)

BroadcastDone == args.fn = "broadcast" /\ pc = "done"

----------------------------------------------------------------------------
(* planeEquation (routines.py 623-650).                                    *)

\* the points handed to planeEquation: the corners of the unit cube, and
\* four more that give collinear triples of distinct points
PlanePoints ==
    {<<QInt(x), QInt(y), QInt(z)>> : x \in 0..1, y \in 0..1, z \in 0..1}
        \cup {<<QInt(2), QInt(2), QInt(2)>>, <<QInt(2), QZero, QZero>>,
              <<Half, Half, Half>>, <<QInt(-1), QInt(2), Half>>}

PlaneArgs ==
    {[fn |-> "planeEquation", xyz1 |-> p1, xyz2 |-> p2, xyz3 |-> p3] :
        p1 \in PlanePoints, p2 \in PlanePoints, p3 \in PlanePoints}

\* float64 arithmetic
FMul(a, b) == F64(QMul(a, b))

FAdd(a, b) == F64(QAdd(a, b))

FSub(a, b) == F64(QSub(a, b))

\* a slip in lines 643-645: the last difference the wrong way round
PlaneNormalTerm_Slip(p1, p2, p3, q1, q2, q3) ==
    FAdd(FAdd(FMul(p1, FSub(q2, q3)), FMul(p2, FSub(q3, q1))), FMul(p3, FSub(q2, q1)))

\* lines 643-645: p(q2 - q3) + p'(q3 - q1) + p''(q1 - q2)
PlaneNormalTerm(p1, p2, p3, q1, q2, q3) ==
    FAdd(FAdd(FMul(p1, FSub(q2, q3)), FMul(p2, FSub(q3, q1))), FMul(p3, FSub(q1, q2)))

\* lines 646-648
PlaneConstantTerm(xyz1, xyz2, xyz3) ==
    LET x1 == xyz1[1]  y1 == xyz1[2]  z1 == xyz1[3]
        x2 == xyz2[1]  y2 == xyz2[2]  z2 == xyz2[3]
        x3 == xyz3[1]  y3 == xyz3[2]  z3 == xyz3[3]
    IN  QNeg(FAdd(FAdd(FMul(x1, FSub(FMul(y2, z3), FMul(y3, z2))),
                       FMul(x2, FSub(FMul(y3, z1), FMul(y1, z3)))),
                  FMul(x3, FSub(FMul(y1, z2), FMul(y2, z1)))))

\* lines 637-650
PlaneEquation ==
    /\ args.fn = "planeEquation"
    /\ pc = "start"
    /\ LET x1 == args.xyz1[1]  y1 == args.xyz1[2]  z1 == args.xyz1[3]
           x2 == args.xyz2[1]  y2 == args.xyz2[2]  z2 == args.xyz2[3]
           x3 == args.xyz3[1]  y3 == args.xyz3[2]  z3 == args.xyz3[3]
       IN  ret' = [eq |-> <<PlaneNormalTerm(y1, y2, y3, z1, z2, z3),
                            PlaneNormalTerm(z1, z2, z3, x1, x2, x3),
                            PlaneNormalTerm(x1, x2, x3, y1, y2, y3),
                            PlaneConstantTerm(args.xyz1, args.xyz2, args.xyz3)>>]
    /\ pc' = "done"
    /\ UNCHANGED <<args, locals, raised, work>>
    /\ UNCHANGED <<prev, obj>>

----------------------------------------------------------------------------
(* Claims about planeEquation.                                             *)

PlaneDone == args.fn = "planeEquation" /\ pc = "done"

\* (q - p) x (r - p), in exact arithmetic
CrossFrom(p, q, r) ==
    LET u == [a \in 1..3 |-> QSub(q[a], p[a])]
        w == [a \in 1..3 |-> QSub(r[a], p[a])]
    IN  <<QSub(QMul(u[2], w[3]), QMul(u[3], w[2])),
          QSub(QMul(u[3], w[1]), QMul(u[1], w[3])),
          QSub(QMul(u[1], w[2]), QMul(u[2], w[1]))>>

Collinear(p, q, r) == CrossFrom(p, q, r) = <<QZero, QZero, QZero>>

\* a*x + b*y + c*z for the point p, in exact arithmetic
PlaneLeftSide(eq, p) ==
    QAdd(QAdd(QMul(eq[1], p[1]), QMul(eq[2], p[2])), QMul(eq[3], p[3]))

\* C14: for three non-collinear points the returned (a, b, c, d) satisfy
\* a*x + b*y + c*z = d at each of the three points.
C14_PlaneThroughPoints ==
    (PlaneDone /\ ~Collinear(args.xyz1, args.xyz2, args.xyz3)) =>
        \A p \in {args.xyz1, args.xyz2, args.xyz3} :
            PlaneLeftSide(ret.eq, p) = ret.eq[4]

\* what the returned coefficients do satisfy: a*x + b*y + c*z + d = 0
PlaneHoldsWithDOnTheLeft ==
    (PlaneDone /\ ~Collinear(args.xyz1, args.xyz2, args.xyz3)) =>
        /\ <<ret.eq[1], ret.eq[2], ret.eq[3]>> # <<QZero, QZero, QZero>>
        /\ \A p \in {args.xyz1, args.xyz2, args.xyz3} :
              QAdd(PlaneLeftSide(ret.eq, p), ret.eq[4]) = QZero

----------------------------------------------------------------------------
(* unitSphere and fullUnitSphere (routines.py 653-757).  The coordinates   *)
(* of a vertex are kept as terms: element k of a np.linspace, its cosine   *)
(* or sine, and the float32 product of two of those.                       *)

\* largest res handed to the sphere routines
MaxRes == 10

SphereArgs == {[fn |-> f, res |-> r] : f \in {"unitSphere", "fullUnitSphere"}, r \in 1..MaxRes}

\* np.linspace(lo, hi, num, dtype=np.float32), element by element
AngleSamples(lo, hi, num) == [k \in 1..num |-> <<"linspace", lo, hi, num, k - 1>>]

\* lines 678-679 and 730-731
SphereU(res) == AngleSamples("-pi/2", "pi/2", res)

SphereV(res) == AngleSamples("-pi", "pi", res)

\* np.cos and np.sin of an array
NpCos(a) == [k \in 1..Len(a) |-> <<"cos", a[k]>>]

NpSin(a) == [k \in 1..Len(a) |-> <<"sin", a[k]>>]

\* np.outer(a, b).flatten(): row-major, b varies fastest
OuterFlat(a, b) ==
    [k \in 1..(Len(a) * Len(b)) |->
        <<"mul", a[((k - 1) \div Len(b)) + 1], b[((k - 1) % Len(b)) + 1]>>]

\* a.repeat(n): every element n times in a row
NpRepeat(a, n) == [k \in 1..(Len(a) * n) |-> a[((k - 1) \div n) + 1]]

\* np.tile(a, n): the whole array n times
NpTile(a, n) == [k \in 1..(Len(a) * n) |-> a[((k - 1) % Len(a)) + 1]]

\* a count that starts at 1
NpArange_FromOne(n) == [k \in 1..n |-> k]

\* np.arange(n)
NpArange(n) == [k \in 1..n |-> k - 1]

\* a[:-1] and a[1:]
AllButLast(a) == SubSeq(a, 1, Len(a) - 1)

AllButFirst(a) == SubSeq(a, 2, Len(a))

\* a += b for two uint32 arrays of one length (the sums stay below
\* res * res, far from the end of the uint32 range)
AddUint32(a, b) == [k \in 1..Len(a) |-> a[k] + b[k]]

\* lines 686-698: the res*res vertices of unitSphere
UnitSphereVertices(res) ==
    LET u    == SphereU(res)
        v    == SphereV(res)
        cucv == OuterFlat(NpCos(u), NpCos(v))
        cusv == OuterFlat(NpCos(u), NpSin(v))
        su   == NpRepeat(NpSin(u), res)
    IN  [k \in 1..(res * res) |-> <<cucv[k], cusv[k], su[k]>>]

\* line 710
QuadIdxs(res) == <<0, res, res + 1, 1>>

\* lines 709-714: the indices of unitSphere
UnitSphereIndices(res) ==
    LET nquads == (res - 1) * (res - 1)
    IN  AddUint32(AddUint32(NpTile(QuadIdxs(res), nquads),
                            NpRepeat(NpArange(nquads), 4)),
                  NpRepeat(NpArange(res - 1), 4 * (res - 1)))

\* a slip in lines 754-755: the third and fourth corner of a quad exchanged
QuadCorners_Slip(c0, c1, c2, c3) == <<c0, c1, c3, c2>>

\* lines 752-755: the corners of a quad, in the order they are stored
QuadCorners(c0, c1, c2, c3) == <<c0, c1, c2, c3>>

\* lines 738-755: the 4*(res-1)*(res-1) vertices of fullUnitSphere
FullUnitSphereVertices(res) ==
    LET u      == SphereU(res)
        v      == SphereV(res)
        cosu   == NpCos(u)
        cosv   == NpCos(v)
        sinu   == NpSin(u)
        sinv   == NpSin(v)
        cucv   == OuterFlat(AllButLast(cosu),  AllButLast(cosv))
        cusv   == OuterFlat(AllButLast(cosu),  AllButLast(sinv))
        cu1cv  == OuterFlat(AllButFirst(cosu), AllButLast(cosv))
        cu1sv  == OuterFlat(AllButFirst(cosu), AllButLast(sinv))
        cu1cv1 == OuterFlat(AllButFirst(cosu), AllButFirst(cosv))
        cu1sv1 == OuterFlat(AllButFirst(cosu), AllButFirst(sinv))
        cucv1  == OuterFlat(AllButLast(cosu),  AllButFirst(cosv))
        cusv1  == OuterFlat(AllButLast(cosu),  AllButFirst(sinv))
        su     == NpRepeat(AllButLast(sinu),  res - 1)
        s1u    == NpRepeat(AllButFirst(sinu), res - 1)
    IN  [p \in 1..((res - 1) * (res - 1) * 4) |->
            LET k == ((p - 1) \div 4) + 1
            IN  QuadCorners(<<cucv[k],   cusv[k],   su[k]>>,
                            <<cu1cv[k],  cu1sv[k],  s1u[k]>>,
                            <<cu1cv1[k], cu1sv1[k], s1u[k]>>,
                            <<cucv1[k],  cusv1[k],  su[k]>>)[((p - 1) % 4) + 1]]

\* unitSphere, lines 678-698
UnitSphereBuild ==
    /\ args.fn = "unitSphere"
    /\ pc = "start"
    /\ locals' = [vertices |-> UnitSphereVertices(args.res)]
    /\ pc' = "indices"
    /\ UNCHANGED <<args, ret, raised, work>>
    /\ UNCHANGED <<prev, obj>>

\* unitSphere, lines 709-716
UnitSphereReturn ==
    /\ args.fn = "unitSphere"
    /\ pc = "indices"
    /\ ret' = [vertices |-> locals.vertices, indices |-> UnitSphereIndices(args.res)]
    /\ pc' = "done"
    /\ UNCHANGED <<args, locals, raised, work>>
    /\ UNCHANGED <<prev, obj>>

\* fullUnitSphere, lines 730-757
FullUnitSphere ==
    /\ args.fn = "fullUnitSphere"
    /\ pc = "start"
    /\ ret' = [vertices |-> FullUnitSphereVertices(args.res)]
    /\ pc' = "done"
    /\ UNCHANGED <<args, locals, raised, work>>
    /\ UNCHANGED <<prev, obj>>

----------------------------------------------------------------------------
(* Claims about the sphere routines.                                       *)

UnitSphereDone == args.fn = "unitSphere" /\ pc = "done"

FullSphereDone == args.fn = "fullUnitSphere" /\ pc = "done"

\* C16: for every res >= 2, unitSphere(res) returns res*res vertices and
\* 4*(res-1)*(res-1) indices, every index below res*res, and
\* fullUnitSphere(res) returns 4*(res-1)*(res-1) vertices; for res = 10
\* that is 100 vertices and 324 indices, and 324 vertices.
C16_SphereCounts ==
    /\ (UnitSphereDone /\ args.res >= 2) =>
          /\ Len(ret.vertices) = args.res * args.res
          /\ Len(ret.indices) = 4 * (args.res - 1) * (args.res - 1)
          /\ \A k \in 1..Len(ret.indices) :
                ret.indices[k] >= 0 /\ ret.indices[k] < args.res * args.res
          /\ args.res = 10 => Len(ret.vertices) = 100 /\ Len(ret.indices) = 324
    /\ (FullSphereDone /\ args.res >= 2) =>
          /\ Len(ret.vertices) = 4 * (args.res - 1) * (args.res - 1)
          /\ args.res = 10 => Len(ret.vertices) = 324

\* C16 witness: unitSphere(10) has returned, its largest index being 99
C16_Witness ==
    /\ UnitSphereDone
    /\ args.res = 10
    /\ \E k \in 1..Len(ret.indices) : ret.indices[k] = 99

\* the vertex of the angle pair (u_i, v_j): [cos u cos v, cos u sin v, sin u]
VertexAt(res, i, j) ==
    LET u == SphereU(res)[i + 1]
        v == SphereV(res)[j + 1]
    IN  << <<"mul", <<"cos", u>>, <<"cos", v>> >>,
           <<"mul", <<"cos", u>>, <<"sin", v>> >>,
           <<"sin", u>> >>

\* C17: the two sphere routines describe the same quads in the same order:
\* vertex p of fullUnitSphere(res) is the vertex of unitSphere(res) that
\* its index p selects, and quad k = i*(res-1) + j lists the angle pairs
\* (u_i, v_j), (u_i+1, v_j), (u_i+1, v_j+1), (u_i, v_j+1), that is the
\* indices i*res+j, (i+1)*res+j, (i+1)*res+j+1, i*res+j+1.
C17_SpheresAgree ==
    /\ (FullSphereDone /\ args.res >= 2) =>
          /\ \A p \in 1..Len(ret.vertices) :
                ret.vertices[p] =
                    UnitSphereVertices(args.res)[UnitSphereIndices(args.res)[p] + 1]
          /\ \A i \in 0..(args.res - 2) : \A j \in 0..(args.res - 2) :
                LET k == i * (args.res - 1) + j
                IN  /\ ret.vertices[4 * k + 1] = VertexAt(args.res, i, j)
                    /\ ret.vertices[4 * k + 2] = VertexAt(args.res, i + 1, j)
                    /\ ret.vertices[4 * k + 3] = VertexAt(args.res, i + 1, j + 1)
                    /\ ret.vertices[4 * k + 4] = VertexAt(args.res, i, j + 1)
    /\ (UnitSphereDone /\ args.res >= 2) =>
          /\ \A p \in 1..Len(ret.indices) :
                ret.vertices[ret.indices[p] + 1] = FullUnitSphereVertices(args.res)[p]
          /\ \A i \in 0..(args.res - 2) : \A j \in 0..(args.res - 2) :
                LET k == i * (args.res - 1) + j
                IN  /\ ret.indices[4 * k + 1] = i * args.res + j
                    /\ ret.indices[4 * k + 2] = (i + 1) * args.res + j
                    /\ ret.indices[4 * k + 3] = (i + 1) * args.res + j + 1
                    /\ ret.indices[4 * k + 4] = i * args.res + j + 1
                    /\ ret.vertices[i * args.res + j + 1] = VertexAt(args.res, i, j)

\* C17 witness: fullUnitSphere has returned more than one row of quads, and
\* the first vertex of its last quad is the vertex of (u_res-2, v_res-2)
C17_Witness ==
    /\ FullSphereDone
    /\ args.res >= 3
    /\ ret.vertices[Len(ret.vertices) - 3] = VertexAt(args.res, args.res - 2, args.res - 2)
    /\ ret.vertices[Len(ret.vertices) - 3] # ret.vertices[1]

----------------------------------------------------------------------------
(* subsample (routines.py 511-565).  The element of the data at voxel      *)
(* (x, y, z) is written <<x, y, z>>, and <<x, y, z, t>> in a 4D array.     *)

\* largest extent of the sampled data along an axis
MaxExtent == 3

\* the number of volumes of a 4D array
NumVolumes == 2

\* None, where an optional argument is left out
None == <<>>

\* pixdim: None, or the length of a voxel along each axis
SubsamplePixdims ==
    {None, <<QInt(2), QInt(2), QInt(2)>>, <<One, Half, QInt(4)>>}

SubsampleResolutions == {Q(1, 2), QInt(3), QInt(4), QInt(5)}

SubsampleArgs ==
    {[fn |-> "subsample", shape |-> <<nx, ny, nz>>, ndim |-> nd,
      resolution |-> r, pixdim |-> pd, volume |-> vol] :
        nx \in 1..MaxExtent, ny \in 1..MaxExtent, nz \in 1..MaxExtent,
        nd \in {3, 4}, r \in SubsampleResolutions, pd \in SubsamplePixdims,
        vol \in {None, <<0>>, <<NumVolumes - 1>>}}

\* np.round of a float that is not negative: the nearest integer, a tie
\* going to the even one
NpRound(a) ==
    IF a.e >= 0 THEN RoundHalfEven(a.n * 2 ^ a.e, a.d)
    ELSE RoundHalfEven(a.n, a.d * 2 ^ (-a.e))

\* lines 541-547: int(np.round(resolution / pixdim[a])), and 1 if that is
\* less than 1
SubsampleStep(resolution, pixdim) ==
    LET step == NpRound(F64(QDiv(resolution, pixdim)))
    IN  IF step < 1 THEN 1 ELSE step

\* the start left where it is
ClampStart_None(start, n) == start

\* lines 553-555
ClampStart(start, n) == IF start >= n THEN n - 1 ELSE start

\* lines 549-555: int(np.floor(step / 2)), kept inside the array
SubsampleStart(step, n) == ClampStart(QFloor(F64(QDiv(QInt(step), QInt(2)))), n)

\* the indices that the slice start::step selects on an axis of n elements
\* (a start that is not negative)
SliceFrom(n, start, step) ==
    LET count == IF start >= n THEN 0 ELSE ((n - 1 - start) \div step) + 1
    IN  [k \in 1..count |-> start + (k - 1) * step]

\* lines 535-555
SubsampleStrides ==
    /\ args.fn = "subsample"
    /\ pc = "start"
    /\ LET pixdim == IF args.pixdim = None THEN <<One, One, One>> ELSE args.pixdim
           step   == [a \in 1..3 |-> SubsampleStep(args.resolution, pixdim[a])]
       IN  locals' = [pixdim |-> pixdim,
                      step   |-> step,
                      start  |-> [a \in 1..3 |-> SubsampleStart(step[a], args.shape[a])]]
    /\ pc' = "sample"
    /\ UNCHANGED <<args, ret, raised, work>>
    /\ UNCHANGED <<prev, obj>>

\* lines 557-565
SubsampleReturn ==
    /\ args.fn = "subsample"
    /\ pc = "sample"
    /\ LET xs == SliceFrom(args.shape[1], locals.start[1], locals.step[1])
           ys == SliceFrom(args.shape[2], locals.start[2], locals.step[2])
           zs == SliceFrom(args.shape[3], locals.start[3], locals.step[3])
           element(x, y, z) ==
               IF args.ndim = 3 THEN <<x, y, z>>
               ELSE IF args.volume = None
                    THEN [t \in 1..NumVolumes |-> <<x, y, z, t - 1>>]
                    ELSE <<x, y, z, args.volume[1]>>
       IN  ret' = [sample |-> [i \in 1..Len(xs) |-> [j \in 1..Len(ys) |->
                                  [k \in 1..Len(zs) |-> element(xs[i], ys[j], zs[k])]]],
                   start  |-> locals.start,
                   step   |-> locals.step]
    /\ pc' = "done"
    /\ UNCHANGED <<args, locals, raised, work>>
    /\ UNCHANGED <<prev, obj>>

----------------------------------------------------------------------------
(* Claims about subsample.                                                 *)

SubsampleDone == args.fn = "subsample" /\ pc = "done"

\* the voxel that element (i, j, k) (from 1) of the returned sample holds
SampledVoxel(i, j, k) ==
    LET el == ret.sample[i][j][k]
        xyz == IF args.ndim = 4 /\ args.volume = None THEN el[1] ELSE el
    IN  <<xyz[1], xyz[2], xyz[3]>>

\* C18: on each axis step = round(resolution/pixdim) (np.round: a tie goes
\* to the even integer) raised to at least 1, and start = floor(step/2)
\* lowered to shape-1 when it would fall outside the array; so for a
\* non-empty array 0 <= start < shape, and the returned sub-array is not
\* empty and holds the elements at start, start+step, start+2*step, ...;
\* for pixdim (2,2,2) and resolution 4 the step is (2,2,2) and the start is
\* 1 on every axis of extent at least 2.
C18_SubsampleStrides ==
    SubsampleDone =>
        LET pixdim == IF args.pixdim = None THEN <<One, One, One>> ELSE args.pixdim
            count(a) == IF a = 1 THEN Len(ret.sample)
                        ELSE IF a = 2 THEN Len(ret.sample[1])
                        ELSE Len(ret.sample[1][1])
        IN  /\ \A a \in 1..3 :
                  /\ ret.step[a] = Max2(1, NpRound(F64(QDiv(args.resolution, pixdim[a]))))
                  /\ ret.start[a] = Min2(ret.step[a] \div 2, args.shape[a] - 1)
                  /\ 0 <= ret.start[a] /\ ret.start[a] < args.shape[a]
            /\ Len(ret.sample) >= 1
            /\ \A a \in 1..3 :
                  /\ count(a) >= 1
                  /\ ret.start[a] + (count(a) - 1) * ret.step[a] < args.shape[a]
                  /\ ret.start[a] + count(a) * ret.step[a] >= args.shape[a]
            /\ \A i \in 1..count(1) : \A j \in 1..count(2) : \A k \in 1..count(3) :
                  SampledVoxel(i, j, k) = <<ret.start[1] + (i - 1) * ret.step[1],
                                            ret.start[2] + (j - 1) * ret.step[2],
                                            ret.start[3] + (k - 1) * ret.step[3]>>
            /\ (args.pixdim = <<QInt(2), QInt(2), QInt(2)>> /\ args.resolution = QInt(4)) =>
                  /\ ret.step = <<2, 2, 2>>
                  /\ \A a \in 1..3 : args.shape[a] >= 2 => ret.start[a] = 1

\* C18 witness: pixdim (2,2,2) and resolution 4 on an array with an axis
\* of extent 1, where the start is lowered to 0, and axes of extent 3,
\* where the start is 1 and the sample holds the voxel (0, 1, 1)
C18_Witness ==
    /\ SubsampleDone
    /\ args.pixdim = <<QInt(2), QInt(2), QInt(2)>>
    /\ args.resolution = QInt(4)
    /\ args.shape = <<1, 3, 3>>
    /\ ret.start = <<0, 1, 1>>
    /\ SampledVoxel(1, 1, 1) = <<0, 1, 1>>

----------------------------------------------------------------------------
(* voxelGrid (routines.py 328-376).                                        *)

\* most points handed to voxelGrid
MaxPoints == 2

\* the voxel coordinates handed to voxelGrid
GridPoints == {<<QZero, One, QInt(2)>>, <<QInt(3), QInt(2), One>>}

\* points is an N*3 array, or (flat) a single point as a 1D array of 3
\* values
VoxelGridArgs ==
    {[fn |-> "voxelGrid", points |-> pts, flat |-> fl, xax |-> ax[1], yax |-> ax[2],
      xpixdim |-> xp, ypixdim |-> yp] :
        pts \in SeqsUpTo(GridPoints, MaxPoints) \ {<<>>}, fl \in {FALSE},
        ax \in AxisPairs, xp \in {One, QInt(3)}, yp \in {One, QInt(3)}}
      \cup
    {[fn |-> "voxelGrid", points |-> <<pt>>, flat |-> TRUE, xax |-> ax[1], yax |-> ax[2],
      xpixdim |-> xp, ypixdim |-> yp] :
        pt \in GridPoints,
        ax \in AxisPairs, xp \in {One, QInt(3)}, yp \in {One, QInt(3)}}

\* lines 357-370: the corner c (0 .. 3) of the rectangle around a point
GridCorner(point, c, xax, yax, xhalf, yhalf) ==
    LET p32 == [a \in 1..3 |-> F32(point[a])]
        dx  == IF c % 2 = 0 THEN QNeg(xhalf) ELSE xhalf
        dy  == IF c < 2 THEN QNeg(yhalf) ELSE yhalf
    IN  SetAx(SetAx(p32, xax, F32(QAdd(GetAx(p32, xax), dx))),
              yax, F32(QAdd(GetAx(p32, yax), dy)))

\* lines 344-376
VoxelGrid ==
    /\ args.fn = "voxelGrid"
    /\ pc = "start"
    /\ LET points  == args.points   \* lines 344-345: a flat point becomes a 1*3 array
           npoints == Len(points)
           xhalf   == F64(QDiv(args.xpixdim, QInt(2)))
           yhalf   == F64(QDiv(args.ypixdim, QInt(2)))
           square  == <<0, 1, 0, 2, 1, 3, 2, 3>>
       IN  ret' = [vertices |-> [k \in 1..(4 * npoints) |->
                                    GridCorner(points[((k - 1) \div 4) + 1], (k - 1) % 4,
                                               args.xax, args.yax, xhalf, yhalf)],
                   indices  |-> AddUint32(NpTile(square, npoints),
                                          NpRepeat([k \in 1..npoints |-> 4 * (k - 1)], 8))]
    /\ pc' = "done"
    /\ UNCHANGED <<args, locals, raised, work>>
    /\ UNCHANGED <<prev, obj>>

----------------------------------------------------------------------------
(* A caller that calls the routine a second time, with the arguments (the  *)
(* arrays) it passed to the first call.                                    *)

CallAgain ==
    /\ args.fn # "__updateBounds"
    /\ pc \in {"done", "raised"}
    /\ prev = NoValue
    /\ prev' = [ret |-> ret, raised |-> raised]
    /\ pc' = "start"
    /\ locals' = NoValue
    /\ ret' = NoValue
    /\ raised' = "none"
    /\ work' = NoWork
    /\ UNCHANGED <<args, obj>>

----------------------------------------------------------------------------
(* Claims about state and side effects.                                    *)

GeometryFunctions ==
    {"calculateSamplePoints", "samplePointsToTriangleStrip", "voxelGrid", "slice2D",
     "subsample", "broadcast", "planeEquation", "unitSphere", "fullUnitSphere"}

SecondCallOver == prev # NoValue /\ pc \in {"done", "raised"}

----------------------------------------------------------------------------
(* MeshOpts.__updateBounds (displaycontext/meshopts.py 512-530).  The      *)
(* bounds property and the notifications sent for it are the state of the  *)
(* MeshOpts object; args.bounds is what the property holds when the method *)
(* is called.                                                              *)

\* np.isclose takes a and b for close when |a - b| <= atol + rtol * |b|;
\* rtol is 2^-CloseBits here and atol its square (1e-5 and 1e-8 in numpy)
CloseBits == 5

RelTol == TwoToMinus(CloseBits)

AbsTol == TwoToMinus(2 * CloseBits)

\* nothing is close to anything
IsClose_Never(a, b) == FALSE

\* np.isclose(a, b) for two floats
IsClose(a, b) == QLeq(QAbs(QSub(a, b)), QAdd(AbsTol, QMul(RelTol, QAbs(b))))

\* np.all(np.isclose(a, b)) for two lists of one length
AllClose(a, b) == \A k \in 1..Len(a) : IsClose(a[k], b[k])

\* lines 519-527: the bounds of the overlay in the display coordinate
\* system, as [xlo, xhi, ylo, yhi, zlo, zhi]
MeshNewBounds(lo, hi, xform) ==
    LET tlo  == Transform(lo, xform)
        thi  == Transform(hi, xform)
        \* lohi.sort(axis=0)
        slo  == [a \in 1..3 |-> QMin(tlo[a], thi[a])]
        shi  == [a \in 1..3 |-> QMax(tlo[a], thi[a])]
    IN  <<slo[1], shi[1], slo[2], shi[2], slo[3], shi[3]>>

\* what the bounds property may hold before the call: the bounds the call
\* will compute, bounds that differ from them by little, and the zeros of a
\* new object
MeshOldBounds(newBounds) ==
    {newBounds,
     [k \in 1..6 |-> IF k % 2 = 0 THEN F64(QAdd(newBounds[k], Q(1, 6))) ELSE newBounds[k]],
     [k \in 1..6 |-> QZero]}

MeshArgs ==
    {[fn |-> "__updateBounds", lo |-> lo, hi |-> hi, xform |-> xf, bounds |-> old] :
        lo \in {<<QZero, QZero, QZero>>}, hi \in {<<One, QInt(2), QInt(3)>>},
        xf \in {IdentityXform, FlipXform, Pixdim3Xform},
        old \in UNION {MeshOldBounds(MeshNewBounds(<<QZero, QZero, QZero>>,
                                                   <<One, QInt(2), QInt(3)>>, x)) :
                          x \in {IdentityXform, FlipXform, Pixdim3Xform}}}

\* lines 519-524
MeshComputeBounds ==
    /\ args.fn = "__updateBounds"
    /\ pc = "start"
    /\ locals' = [bounds    |-> args.bounds,
                  newBounds |-> MeshNewBounds(args.lo, args.hi, args.xform),
                  notified  |-> <<>>]
    /\ pc' = "store"
    /\ UNCHANGED <<args, ret, raised, work, prev, obj>>

\* lines 526-527.  oldBounds is what reading the property gave: a copy of
\* the list, or the property's own list, which the assignment then changes
\* (the property classes are not part of this repository).  The assignment
\* notifies the listeners of the property when it changes the value.
MeshStoreBounds ==
    /\ args.fn = "__updateBounds"
    /\ pc = "store"
    /\ \E live \in BOOLEAN :
          locals' = [oldBounds |-> IF live THEN locals.newBounds ELSE locals.bounds] @@
                    [locals EXCEPT
                        !.bounds   = locals.newBounds,
                        !.notified = IF locals.newBounds # locals.bounds
                                     THEN Append(@, "assignment") ELSE @]
    /\ pc' = "notify"
    /\ UNCHANGED <<args, ret, raised, work, prev, obj>>

\* lines 529-530
MeshNotify ==
    /\ args.fn = "__updateBounds"
    /\ pc = "notify"
    /\ locals' = [locals EXCEPT
                     !.notified = IF AllClose(locals.oldBounds, locals.bounds)
                                  THEN Append(@, "propNotify") ELSE @]
    /\ pc' = "done"
    /\ UNCHANGED <<args, ret, raised, work, prev, obj>>

----------------------------------------------------------------------------
(* Claims about MeshOpts.__updateBounds.                                   *)

MeshDone == args.fn = "__updateBounds" /\ pc = "done"

\* the bounds that the property held before the call and those it holds
\* after it are close, entry by entry
BoundsBarelyMoved ==
    \A k \in 1..6 :
        Within(args.bounds[k], locals.bounds[k],
               QAdd(AbsTol, QMul(RelTol, QAbs(locals.bounds[k]))))

ExtraNotification == \E k \in 1..Len(locals.notified) : locals.notified[k] = "propNotify"

\* the stored bounds are overwritten before anything is notified by hand
MeshWritesFirst ==
    (args.fn = "__updateBounds" /\ pc \in {"notify", "done"}) =>
        locals.bounds = MeshNewBounds(args.lo, args.hi, args.xform)

\* C20 as stated: every call first overwrites the stored bounds with the
\* new ones, and the extra notification is suppressed when the new bounds
\* are close to the old, so that a listener that is notified of 'bounds'
\* may take the value to have changed materially.
C20_NotificationSuppressedWhenClose ==
    /\ MeshWritesFirst
    /\ MeshDone =>
          /\ BoundsBarelyMoved => ~ExtraNotification
          /\ locals.notified # <<>> => ~BoundsBarelyMoved

\* C20, amended: every call first overwrites the stored bounds with the
\* new ones, and the extra notification is sent (not suppressed) whenever
\* the new bounds are close to the old, bounds that did not change at all
\* included.
C20_NotifiedWhenClose ==
    /\ MeshWritesFirst
    /\ MeshDone => (BoundsBarelyMoved => ExtraNotification)

\* C20 witness: the call is over, the new bounds differ from the old by
\* little, and the extra notification was sent
C20_Witness ==
    /\ MeshDone
    /\ args.bounds # locals.bounds
    /\ BoundsBarelyMoved
    /\ ExtraNotification

----------------------------------------------------------------------------
Init ==
    /\ args \in StripArgs \cup SampleArgs \cup SliceArgs \cup GenVoxArgs
                \cup BroadcastArgs \cup PlaneArgs \cup SphereArgs
                \cup SubsampleArgs \cup VoxelGridArgs \cup MeshArgs
    /\ pc = "start"
    /\ locals = NoValue
    /\ ret = NoValue
    /\ raised = "none"
    /\ work = NoWork
    /\ prev = NoValue
    /\ obj = NoValue

Next ==
    \/ StripPrepare
    \/ StripLoop
    \/ StripReturn
    \/ SampleCounts
    \/ SampleGrid
    \/ SliceBounds
    \/ SliceVertices
    \/ SliceTransform
    \/ SliceTexCoords
    \/ GenVoxCheckSpace
    \/ GenVoxGetTransforms
    \/ GenVoxGrid
    \/ GenVoxReturn
    \/ BroadcastPrepare
    \/ BroadcastLoop
    \/ BroadcastReturn
    \/ PlaneEquation
    \/ UnitSphereBuild
    \/ UnitSphereReturn
    \/ FullUnitSphere
    \/ SubsampleStrides
    \/ SubsampleReturn
    \/ VoxelGrid
    \/ CallAgain
    \/ MeshComputeBounds
    \/ MeshStoreBounds
    \/ MeshNotify

Spec == Init /\ [][Next]_vars

----------------------------------------------------------------------------
(* The specifications of the panels and display objects.  The variables of *)
(* a routine call stay as they are in them.                                *)

callVars == <<args, pc, locals, ret, raised, work, prev>>

NoCall ==
    /\ args = NoValue
    /\ pc = "idle"
    /\ locals = NoValue
    /\ ret = NoValue
    /\ raised = "none"
    /\ work = NoWork
    /\ prev = NoValue

----------------------------------------------------------------------------
(* PlotPanel.drawDataSeries and PlotPanel.__drawDataSeries                 *)
(* (views/plotpanel.py 237-250, 451-601).  The requests wait in the one    *)
(* task queue of the panel and come back to the event loop in the order    *)
(* they were made ("the plotting occurs on the main WX event loop", lines  *)
(* 222-227), so both methods run to their end without the other.           *)

\* most calls of drawDataSeries in a behaviour
MaxCalls == 4

\* what a call of drawDataSeries may find to plot (extraSeries + dataSeries)
PlotLists == {<<>>, <<"a">>, <<"a", "b">>}

PlotInit ==
    /\ NoCall
    /\ obj = [drawRequests |-> 0,        \* line 250
              drawQueue    |-> <<>>,     \* lines 233-235
              calls        |-> 0,        \* calls of drawDataSeries so far
              canvas       |-> [showing |-> "nothing", call |-> 0, series |-> <<>>],
              completed    |-> <<>>,     \* the requests that came back, in order
              drew         |-> {}]       \* the requests that plotted their data

\* the counter is left as it is
AfterCompletion_Same(drawRequests) == drawRequests

\* line 594
AfterCompletion(drawRequests) == drawRequests - 1

\* lines 492-559: the call number n of drawDataSeries, with toPlot to plot
PlotDrawDataSeries ==
    /\ obj.calls < MaxCalls
    /\ \E toPlot \in PlotLists :
          LET n == obj.calls + 1
          IN  IF Len(toPlot) = 0
              THEN obj' = [obj EXCEPT
                              !.calls  = n,
                              !.canvas = [showing |-> "cleared", call |-> n,
                                          series |-> <<>>]]
              ELSE obj' = [obj EXCEPT
                              !.calls        = n,
                              !.drawRequests = @ + 1,
                              !.drawQueue    = Append(@, [call |-> n, toPlot |-> toPlot])]
    /\ UNCHANGED callVars

\* lines 591-698: the request at the head of the queue comes back
PlotRequestCompletes ==
    /\ obj.drawQueue # <<>>
    /\ LET request == Head(obj.drawQueue)
           left    == AfterCompletion(obj.drawRequests)
       IN  obj' = [obj EXCEPT
                      !.drawRequests = left,
                      !.drawQueue    = Tail(@),
                      !.completed    = Append(@, request.call),
                      !.canvas       = IF left # 0 THEN @
                                       ELSE [showing |-> "plot", call |-> request.call,
                                             series |-> request.toPlot],
                      !.drew         = IF left # 0 THEN @ ELSE @ \cup {request.call}]
    /\ UNCHANGED callVars

PlotNext ==
    \/ PlotDrawDataSeries
    \/ PlotRequestCompletes

PlotSpec == PlotInit /\ [][PlotNext]_vars

----------------------------------------------------------------------------
(* Claims about PlotPanel.                                                 *)

\* a step in which drawDataSeries enqueued a request
RequestMade == Len(obj'.drawQueue) = Len(obj.drawQueue) + 1

\* a step in which a request came back
RequestCompleted == Len(obj'.completed) = Len(obj.completed) + 1

\* a step in which something was plotted on the canvas
Plotted == obj'.canvas # obj.canvas /\ obj'.canvas.showing = "plot"

\* C21: every drawDataSeries call that has something to plot increments
\* the counter and enqueues one request; every completed request
\* decrements the counter exactly once and draws only if the counter is
\* then zero.  So the counter is never negative, no plot is drawn while a
\* newer request is pending, and once all requests have completed the
\* counter is zero and the last completed request, and of the requests that
\* were pending with it only that one, has drawn.
C21_DrawGatedOnCounter ==
    /\ [](obj.drawRequests >= 0 /\ obj.drawRequests = Len(obj.drawQueue))
    /\ [][/\ RequestMade => obj'.drawRequests = obj.drawRequests + 1
          /\ (obj'.calls # obj.calls /\ ~RequestMade) => obj'.drawRequests = obj.drawRequests
          /\ RequestCompleted => obj'.drawRequests = obj.drawRequests - 1
          /\ Plotted => RequestCompleted /\ obj'.drawRequests = 0 /\ obj'.drawQueue = <<>>
          /\ (RequestCompleted /\ obj'.drawQueue # <<>>) =>
                obj'.drew = obj.drew /\ obj'.canvas = obj.canvas]_vars
    /\ []((obj.drawQueue = <<>> /\ obj.completed # <<>>) =>
              /\ obj.drawRequests = 0
              /\ obj.completed[Len(obj.completed)] \in obj.drew)

\* C21 witness: three requests were pending together, all have come back,
\* and only the last of them has drawn
C21_Witness ==
    /\ obj # NoValue
    /\ obj.drawQueue = <<>>
    /\ Len(obj.completed) = 3
    /\ obj.drew = {obj.completed[3]}
    /\ obj.canvas.showing = "plot"

\* C27: once all queued requests have completed, the canvas reflects the
\* most recent drawDataSeries call; if that call had nothing to plot and
\* cleared the axis, no earlier request that completes later draws onto
\* the cleared canvas.
C27_CanvasShowsLatestCall ==
    (obj # NoValue /\ obj.calls > 0 /\ obj.drawQueue = <<>>) =>
        obj.canvas.call = obj.calls

----------------------------------------------------------------------------
(* OverlayPlotPanel (views/plotpanel.py 895-1468): the cache of one        *)
(* DataSeries per compatible overlay, and the listeners that redraw the    *)
(* plot.  Each handler runs to its end on the event loop.  The Display     *)
(* objects and their 'enabled' listeners belong to the DisplayContext,     *)
(* which is not part of these sources, and are left out.                   *)

\* most DataSeries copies held in PlotPanel.dataSeries
MaxSeries == 2

\* the overlays there are: two images, a mesh no series can be made for,
\* and a proxy of the first image
Overlays == {"o1", "o2", "o3", "p1"}

NoOverlay == "none"

IsProxyImage(o) == o = "p1"

\* ProxyImage.getBase
GetBase(o) == IF IsProxyImage(o) THEN "o1" ELSE o

\* createDataSeries of a sub-class: whether a series can be made for the
\* overlay, and the (target, property) pairs that the series depends on.
\* The location of the display context is shared by the two images.
CreateDataSeries(o) ==
    CASE o = "o1" -> [ds    |-> TRUE,
                      pairs |-> {<<"displayCtx", "location">>, <<"opts1", "volume">>}]
      [] o = "o2" -> [ds    |-> TRUE,
                      pairs |-> {<<"displayCtx", "location">>, <<"opts2", "volume">>}]
      [] OTHER    -> [ds |-> FALSE, pairs |-> {}]

\* lines 1281-1289
Compatible(o) == ~IsProxyImage(o) /\ CreateDataSeries(o).ds

\* the refresh targets and properties kept for a cached overlay (line 1292)
RefreshPairs(o) == CreateDataSeries(o).pairs

\* the overlay lists: a proxy is in the list together with its base
OverlayLists == {L \in SUBSET Overlays : \A o \in L : GetBase(o) \in L}

\* DisplayContext.getSelectedOverlay: an overlay of the list, or None when
\* the list is empty
Selections(L) == IF L = {} THEN {NoOverlay} ELSE L

ShowModes == {"all", "current", "none"}

\* lines 1301-1307
TargetOverlays(st) ==
    CASE st.showMode = "all"     -> {GetBase(o) : o \in st.overlayList}
      [] st.showMode = "current" -> {GetBase(st.selectedOverlay)}
      [] OTHER                   -> {}

\* the pairs of a set of cached overlays
PairsOf(S) == UNION {RefreshPairs(o) : o \in S}

\* the overlays not of interest are handled after the others
RegisterInOrder_TargetsFirst(listeners, offPairs, onPairs) ==
    (listeners \cup onPairs) \ offPairs

\* lines 1312-1314, 1323, 1350-1368: the listeners are removed for the
\* overlays that are not of interest, and then added for those that are
RegisterInOrder(listeners, offPairs, onPairs) ==
    (listeners \ offPairs) \cup onPairs

\* nothing in the cache is taken to be out of date
StaleOverlays_None(cached, overlayList) == {}

\* lines 1442-1443
StaleOverlays(cached, overlayList) == cached \ overlayList

\* lines 1250-1266
ClearDataSeries(st, overlay) ==
    LET o     == GetBase(overlay)
        pairs == IF o \in st.refreshProps THEN RefreshPairs(o) ELSE {}
    IN  [st EXCEPT
            !.seriesCache     = @ \ {o},
            !.refreshProps    = @ \ {o},
            !.destroyed       = IF o \in st.seriesCache
                                THEN @ \cup {<<"cached", o>>} ELSE @,
            !.globalListeners = @ \ {o},
            !.listeners       = @ \ pairs,
            !.removeCalls     = @ \cup pairs]

RECURSIVE ClearEach(_, _)
ClearEach(st, S) ==
    IF S = {} THEN st
    ELSE LET o == CHOOSE x \in S : TRUE
         IN  ClearEach(ClearDataSeries(st, o), S \ {o})

\* lines 1269-1368
UpdateDataSeries(st) ==
    LET created == {o \in st.overlayList :
                       o \notin st.seriesCache /\ Compatible(o)}
        props   == st.refreshProps \cup created
        targets == TargetOverlays(st)
        others  == props \ targets
        wanted  == props \cap targets
    IN  [st EXCEPT
            !.seriesCache     = @ \cup created,
            !.refreshProps    = props,
            !.globalListeners = (@ \ others) \cup wanted,
            !.listeners       = RegisterInOrder(@, PairsOf(others), PairsOf(wanted)),
            !.removeCalls     = @ \cup PairsOf(others)]

\* lines 1426-1455, with lines 1415-1423
OverlayListChangedHandler(st) ==
    LET kept == SelectSeq(st.dataSeries, LAMBDA o : o \in st.overlayList)
        gone == {st.dataSeries[i] : i \in DOMAIN st.dataSeries} \ st.overlayList
        st1  == [st EXCEPT !.dataSeries = kept,
                           !.destroyed  = @ \cup {<<"copy", o>> : o \in gone}]
        st2  == ClearEach(st1, StaleOverlays(st1.seriesCache, st1.overlayList))
    IN  UpdateDataSeries(st2)

\* a handler starts: what the one before destroyed and removed is forgotten
Handling(st) == [st EXCEPT !.destroyed = {}, !.removeCalls = {}]

\* lines 1005-1059
OverlayPlotInit ==
    /\ NoCall
    /\ \E L \in OverlayLists : \E sel \in Selections(L) :
          obj = OverlayListChangedHandler(
                    [overlayList     |-> L,
                     selectedOverlay |-> sel,
                     showMode        |-> "all",        \* line 980
                     dataSeries      |-> <<>>,
                     seriesCache     |-> {},           \* line 1042
                     refreshProps    |-> {},           \* line 1043
                     listeners       |-> {},
                     globalListeners |-> {},
                     destroyed       |-> {},
                     removeCalls     |-> {}])

\* the overlay list changes, and with it the selected overlay
OverlayListChanged ==
    /\ \E L \in OverlayLists \ {obj.overlayList} : \E sel \in Selections(L) :
          obj' = OverlayListChangedHandler(
                    [Handling(obj) EXCEPT !.overlayList = L,
                                          !.selectedOverlay = sel])
    /\ UNCHANGED callVars

\* lines 1415-1423
SelectedOverlayChanged ==
    /\ \E sel \in Selections(obj.overlayList) \ {obj.selectedOverlay} :
          obj' = UpdateDataSeries([Handling(obj) EXCEPT !.selectedOverlay = sel])
    /\ UNCHANGED callVars

\* lines 1399-1405
ShowModeChanged ==
    /\ \E mode \in ShowModes \ {obj.showMode} :
          obj' = UpdateDataSeries([Handling(obj) EXCEPT !.showMode = mode])
    /\ UNCHANGED callVars

\* lines 1110-1197: a copy of the series of the selected overlay is added
AddDataSeries ==
    /\ obj.selectedOverlay # NoOverlay
    /\ GetBase(obj.selectedOverlay) \in obj.seriesCache
    /\ Len(obj.dataSeries) < MaxSeries
    /\ obj' = [Handling(obj) EXCEPT
                  !.dataSeries = Append(@, GetBase(obj.selectedOverlay))]
    /\ UNCHANGED callVars

\* lines 1201-1206
RemoveDataSeries ==
    /\ Len(obj.dataSeries) > 0
    /\ obj' = [Handling(obj) EXCEPT
                  !.dataSeries = SubSeq(@, 1, Len(@) - 1)]
    /\ UNCHANGED callVars

OverlayPlotNext ==
    \/ OverlayListChanged
    \/ SelectedOverlayChanged
    \/ ShowModeChanged
    \/ AddDataSeries
    \/ RemoveDataSeries

OverlayPlotSpec == OverlayPlotInit /\ [][OverlayPlotNext]_vars

----------------------------------------------------------------------------
(* Claims about OverlayPlotPanel.                                          *)

\* the overlays that the DataSeries of PlotPanel.dataSeries refer to
ListedSeries(st) == {st.dataSeries[i] : i \in DOMAIN st.dataSeries}

\* C22: after an overlay-list change is handled, no DataSeries of the
\* dataSeries list and no cache entry refers to an overlay that is not in
\* the list any more, every series of a removed overlay has been destroyed
\* and the listeners on its refresh targets have been removed (none is left
\* on a target that only removed overlays had); the DataSeries map and the
\* refresh-property map have the same overlay keys throughout.
C22_NoStaleSeries ==
    /\ [](/\ ListedSeries(obj) \subseteq obj.overlayList
          /\ obj.seriesCache \subseteq obj.overlayList
          /\ obj.seriesCache = obj.refreshProps
          /\ obj.listeners \subseteq
                UNION {RefreshPairs(o) : o \in obj.seriesCache})
    /\ [][\A o \in obj.overlayList \ obj'.overlayList :
             /\ o \in ListedSeries(obj) => <<"copy", o>> \in obj'.destroyed
             /\ o \in obj.seriesCache =>
                   /\ <<"cached", o>> \in obj'.destroyed
                   /\ RefreshPairs(o) \subseteq obj'.removeCalls]_vars

\* C22 witness: an image with a cached series and a copy in the dataSeries
\* list was removed from the overlay list, another image is still there
C22_Witness ==
    /\ obj # NoValue
    /\ "overlayList" \in DOMAIN obj
    /\ <<"copy", "o2">> \in obj.destroyed
    /\ <<"cached", "o2">> \in obj.destroyed
    /\ "o2" \notin obj.overlayList
    /\ "o1" \in obj.seriesCache

\* C23: with T the overlays that showMode selects (proxies replaced by
\* their base): every compatible overlay of the list has a cached
\* DataSeries; for a cached overlay in T the redraw listener is registered
\* on its DataSeries and on each of its (target, property) pairs; for a
\* cached overlay not in T it is removed from its DataSeries and from its
\* pairs, except that a pair shared with an overlay in T stays registered.
C23_ListenersFollowShowMode ==
    LET T == CASE obj.showMode = "all"     -> {GetBase(o) : o \in obj.overlayList}
               [] obj.showMode = "current" -> {GetBase(obj.selectedOverlay)}
               [] OTHER                    -> {}
    IN  /\ \A o \in obj.overlayList : Compatible(o) => o \in obj.seriesCache
        /\ \A o \in obj.seriesCache \cap T :
              /\ o \in obj.globalListeners
              /\ RefreshPairs(o) \subseteq obj.listeners
        /\ \A o \in obj.seriesCache \ T :
              /\ o \notin obj.globalListeners
              /\ \A pair \in RefreshPairs(o) :
                    pair \in obj.listeners <=>
                       \E t \in obj.seriesCache \cap T : pair \in RefreshPairs(t)

\* C23 witness: only the selected image is of interest, the other image is
\* cached too, and the listener on the location they share, removed for
\* the other image, is registered
C23_Witness ==
    /\ obj # NoValue
    /\ "showMode" \in DOMAIN obj
    /\ obj.showMode = "current"
    /\ obj.selectedOverlay = "p1"
    /\ {"o1", "o2"} \subseteq obj.seriesCache
    /\ <<"displayCtx", "location">> \in obj.removeCalls
    /\ <<"displayCtx", "location">> \in obj.listeners
    /\ <<"opts2", "volume">> \notin obj.listeners

----------------------------------------------------------------------------
(* MeshOpts.colour and Display.alpha                                       *)
(* (displaycontext/meshopts.py 186-246, 619-645).  The two listeners are   *)
(* immediate: a write to one property calls the listener of it before      *)
(* anything else happens, unless the listener is skipped (props.skip).     *)

Hundred == QInt(100)

\* values that Display.alpha is set to (a percentage)
MeshAlphas == {QZero, QInt(7), QInt(14), QInt(28), QInt(50), Hundred}

\* values that the alpha component of MeshOpts.colour is set to
MeshColourAlphas ==
    {QZero, Q(1, 2), Q(1, 1), F64(QDiv(QInt(7), QInt(10))), QInt(1)}

\* the listener of the other property is called as for any other write
SkipsOwnListener_Never(written) == FALSE

\* lines 628-629, 644-645: props.skip(..., self.name)
SkipsOwnListener(written) == written \in {"alpha", "colour"}

\* who is called after a handler wrote new over old in a property
NotifyAfterWrite(written, old, new) ==
    IF new # old /\ ~SkipsOwnListener(written) THEN written ELSE "none"

\* lines 186-246: the listeners are registered on child instances only
MeshColourInit ==
    /\ NoCall
    /\ \E registered \in BOOLEAN : \E alpha \in MeshAlphas :
          obj = [registered |-> registered,
                 colour3    |-> QInt(1),     \* line 188
                 alpha      |-> alpha,
                 notify     |-> "none",      \* the listener that is about to run
                 changed    |-> "none",      \* the property that was set from outside
                 handled    |-> 0]           \* handlers run for that change

\* Display.alpha is set from outside
MeshSetAlpha ==
    /\ obj.notify = "none"
    /\ \E alpha \in MeshAlphas \ {obj.alpha} :
          obj' = [obj EXCEPT !.alpha   = alpha,
                             !.changed = "alpha",
                             !.handled = 0,
                             !.notify  = IF obj.registered THEN "alpha" ELSE "none"]
    /\ UNCHANGED callVars

\* MeshOpts.colour is set from outside
MeshSetColour ==
    /\ obj.notify = "none"
    /\ \E colour3 \in MeshColourAlphas \ {obj.colour3} :
          obj' = [obj EXCEPT !.colour3 = colour3,
                             !.changed = "colour",
                             !.handled = 0,
                             !.notify  = IF obj.registered THEN "colour" ELSE "none"]
    /\ UNCHANGED callVars

\* lines 619-629
MeshColourChanged ==
    /\ obj.notify = "colour"
    /\ LET alpha == F64(QMul(obj.colour3, Hundred))
       IN  obj' = [obj EXCEPT !.alpha   = alpha,
                              !.handled = @ + 1,
                              !.notify  = NotifyAfterWrite("alpha", obj.alpha, alpha)]
    /\ UNCHANGED callVars

\* lines 632-645
MeshAlphaChanged ==
    /\ obj.notify = "alpha"
    /\ LET alpha == F64(QDiv(obj.alpha, Hundred))
       IN  obj' = [obj EXCEPT !.colour3 = alpha,
                              !.handled = @ + 1,
                              !.notify  = NotifyAfterWrite("colour", obj.colour3, alpha)]
    /\ UNCHANGED callVars

MeshColourNext ==
    \/ MeshSetAlpha
    \/ MeshSetColour
    \/ MeshColourChanged
    \/ MeshAlphaChanged

MeshColourSpec == MeshColourInit /\ [][MeshColourNext]_vars

----------------------------------------------------------------------------
(* Claims about MeshOpts.colour and Display.alpha.                         *)

\* a change of one of the two properties has been handled
MeshChangeHandled == obj.notify = "none" /\ obj.handled > 0

\* C24 as stated: after a change to either property is handled,
\* colour[3] * 100 equals Display.alpha, and the propagation took one step.
C24_AlphaEqualsColour ==
    MeshChangeHandled =>
        /\ F64(QMul(obj.colour3, QInt(100))) = obj.alpha
        /\ obj.handled = 1

\* C24 amended: after a change of colour is handled, Display.alpha is
\* colour[3] * 100; after a change of Display.alpha is handled, colour[3]
\* is alpha / 100.0, and colour[3] * 100 is alpha up to the rounding of the
\* division and of the product.  The handler of the other property is not
\* run, so one handler runs for each change.
C24_AlphaFollowsColourRounded ==
    /\ obj.handled <= 1
    /\ MeshChangeHandled =>
          /\ obj.changed = "colour" =>
                obj.alpha = F64(QMul(obj.colour3, QInt(100)))
          /\ obj.changed = "alpha" =>
                /\ obj.colour3 = F64(QDiv(obj.alpha, QInt(100)))
                /\ Within(F64(QMul(obj.colour3, QInt(100))), obj.alpha,
                          QMul(obj.alpha, TwoToMinus(DoubleBits - 2)))

\* C24 witness: Display.alpha was set to 7 and the change handled;
\* colour[3] * 100 is not 7
C24_Witness ==
    /\ obj # NoValue
    /\ "colour3" \in DOMAIN obj
    /\ MeshChangeHandled
    /\ obj.changed = "alpha"
    /\ obj.alpha = QInt(7)
    /\ F64(QMul(obj.colour3, QInt(100))) # obj.alpha

----------------------------------------------------------------------------
(* MelodicClassificationPanel                                              *)
(* (controls/melodicclassificationpanel.py 61-646).  Each handler runs to  *)
(* its end on the event loop; the dialogs it shows are modal, and what the *)
(* user answers is an input of the handler.                                *)

\* the components of every melodic image (MelodicImage.numComponents)
NumComponents == 2

\* the overlays: two melodic images, of the directories dirA and dirB, and
\* an image that is not a melodic image
MelOverlays == {"mel1", "mel2", "img"}

IsMelodicImage(o) == o \in {"mel1", "mel2"}

NoMelDir == "none"

\* MelodicImage.getMelodicDir
GetMelodicDir(o) == IF o = "mel1" THEN "dirA" ELSE "dirB"

\* the directories a label file may name; no image can be loaded from the
\* last
MelDirs == {NoMelDir, "dirA", "dirB", "dirBad"}

\* fslmelimage.MelodicImage(melDir) succeeds
Loadable(melDir) == melDir \in {"dirA", "dirB"}

\* the image that MelodicImage(melDir) gives
LoadedImage(melDir) == IF melDir = "dirA" THEN "mel1" ELSE "mel2"

\* the labels of one component in a label file
LabelEntries == << <<"Signal">>, <<"Custom", "Signal">> >>

\* a label file with entries for the first n components, which take the
\* two entries in turn
LabelList(first, n) == [c \in 1..n |-> LabelEntries[1 + ((first + c) % 2)]]

\* what loadLabelFile returns for allLabels: an entry for each of the
\* first components, up to one more than a melodic image has
LabelLists == {LabelList(first, n) : first \in 0..1, n \in 0..(NumComponents + 1)}

\* MelodicClassification keeps the labels in lower case ...
LowerLabel(l) ==
    CASE l = "Signal"  -> "signal"
      [] l = "Custom"  -> "custom"
      [] l = "Unknown" -> "unknown"

\* ... and getDisplayLabel gives them as they were added
GetDisplayLabel(l) ==
    CASE l = "signal"  -> "Signal"
      [] l = "custom"  -> "Custom"
      [] l = "unknown" -> "Unknown"

\* the names that the 'melodic-classes' lookup table starts with
MelodicClasses == {"Unknown", "Signal"}

\* a new MelodicClassification: every component is 'Unknown'
UnknownLabels == [c \in 1..NumComponents |-> {"unknown"}]

NewClassification == [o \in {"mel1", "mel2"} |-> UnknownLabels]

NothingApplied == [overlay |-> NoOverlay, labels |-> <<>>]

\* the label lists are left as they were loaded
PadLabels_None(allLabels, ncomps) == allLabels

\* lines 397-399
PadLabels(allLabels, ncomps) ==
    allLabels \o [i \in 1..(ncomps - Len(allLabels)) |-> <<"Unknown">>]

\* lines 370-441
ApplyLabels(st, overlay, allLabels, newOverlay) ==
    IF ~IsMelodicImage(overlay)
    THEN \* line 378: there is no getICClassification to call
         [st EXCEPT !.event = "exception"]
    ELSE IF NumComponents < Len(allLabels)
    THEN [st EXCEPT !.event = "wrongNComps"]
    ELSE LET padded == PadLabels(allLabels, NumComponents)
             labels == [c \in 1..NumComponents |->
                           IF c \in DOMAIN padded
                           THEN {LowerLabel(padded[c][i]) : i \in DOMAIN padded[c]}
                           ELSE {}]
             inUse  == UNION {labels[c] : c \in 1..NumComponents}
         IN  [st EXCEPT
                 !.classification[overlay] = labels,
                 !.lut             = @ \cup {GetDisplayLabel(l) : l \in inUse},
                 !.event           = "applied",
                 !.applied         = [overlay |-> overlay, labels |-> allLabels],
                 !.selectedOverlay = IF newOverlay THEN overlay ELSE @,
                 !.gridOverlay     = IF newOverlay THEN overlay ELSE @]

\* a handler starts: what the one before reported is forgotten
MelHandling(st) ==
    [st EXCEPT !.event = "none", !.applied = NothingApplied, !.imageError = FALSE]

\* lines 337-596.  The input says whether the file dialog was confirmed,
\* whether the label file could be read, what it holds, what the user
\* answers when asked which image to use, and whether the display context
\* selects an overlay that is appended to the list.
OnLoadButton(st0, in) ==
    LET st      == MelHandling(st0)
        overlay == st.selectedOverlay
        selectedIsMelodic == IsMelodicImage(overlay)
    IN  IF ~in.confirmed THEN [st EXCEPT !.event = "cancelled"]
        ELSE IF ~in.readable THEN [st EXCEPT !.event = "loadError"]
        ELSE IF selectedIsMelodic /\ in.melDir = NoMelDir
        THEN ApplyLabels(st, overlay, in.allLabels, FALSE)
        ELSE IF selectedIsMelodic /\ in.melDir = GetMelodicDir(overlay)
        THEN ApplyLabels(st, overlay, in.allLabels, FALSE)
        ELSE IF selectedIsMelodic /\ in.response = "cancel"
        THEN [st EXCEPT !.event = "cancelled"]
        ELSE IF selectedIsMelodic /\ in.response = "no"
        THEN ApplyLabels(st, overlay, in.allLabels, FALSE)
        ELSE IF in.melDir = NoMelDir
        THEN [st EXCEPT !.event = "noMelDir"]
        ELSE IF Loadable(in.melDir)
        THEN LET new == LoadedImage(in.melDir)
             IN  ApplyLabels(
                     [st EXCEPT
                         !.overlayList = @ \cup {new},
                         !.classification[new] = UnknownLabels,
                         !.selectedOverlay =
                             IF @ = NoOverlay \/ in.selectsNew THEN new ELSE @],
                     new, in.allLabels, TRUE)
        ELSE \* lines 585-596: the error is shown, and the handler goes on
             ApplyLabels([st EXCEPT !.imageError = TRUE],
                         overlay, in.allLabels, TRUE)

LoadInputs ==
    [confirmed  : {FALSE},
     readable   : {FALSE},
     melDir     : {NoMelDir},
     allLabels  : {<<>>},
     response   : {"cancel"},
     selectsNew : {FALSE}]
    \cup
    [confirmed  : {TRUE},
     readable   : {FALSE},
     melDir     : {NoMelDir},
     allLabels  : {<<>>},
     response   : {"cancel"},
     selectsNew : {FALSE}]
    \cup
    [confirmed  : {TRUE},
     readable   : {TRUE},
     melDir     : MelDirs,
     allLabels  : LabelLists,
     response   : {"cancel", "yes", "no"},
     selectsNew : BOOLEAN]

\* lines 261-288, with lines 195-246
SelectedOverlayChangedHandler(st) ==
    LET overlay == st.selectedOverlay
    IN  IF st.overlay = overlay THEN st
        ELSE [st EXCEPT
                 !.gridOverlay = overlay,
                 !.overlay     = IF IsMelodicImage(overlay) THEN overlay ELSE NoOverlay,
                 !.enabled     = IF IsMelodicImage(overlay) THEN "enabled" ELSE "disabled"]

\* lines 61-168.  The widgets are as wx made them until __enable is called.
MelodicInit ==
    /\ NoCall
    /\ \E L \in SUBSET MelOverlays : \E sel \in Selections(L) :
          obj = SelectedOverlayChangedHandler(
                    [overlayList     |-> L,
                     selectedOverlay |-> sel,
                     overlay         |-> NoOverlay,        \* line 81
                     enabled         |-> "unset",
                     gridOverlay     |-> NoOverlay,
                     classification  |-> NewClassification,
                     lut             |-> MelodicClasses,   \* line 83
                     event           |-> "none",
                     applied         |-> NothingApplied,
                     imageError      |-> FALSE])

\* the overlay list or the selected overlay changes (lines 159-164); an
\* image that leaves the list is gone, with its classification
MelSelectedOverlayChanged ==
    /\ \E L \in SUBSET MelOverlays : \E sel \in Selections(L) :
          /\ <<L, sel>> # <<obj.overlayList, obj.selectedOverlay>>
          /\ obj' = SelectedOverlayChangedHandler(
                       [MelHandling(obj) EXCEPT
                           !.overlayList     = L,
                           !.selectedOverlay = sel,
                           !.classification  =
                               [o \in DOMAIN @ |-> IF o \in L THEN @[o]
                                                   ELSE UnknownLabels]])
    /\ UNCHANGED callVars

\* lines 337-596; an image is loaded from a directory once
MelOnLoadButton ==
    /\ \E in \in LoadInputs :
          /\ Loadable(in.melDir) => LoadedImage(in.melDir) \notin obj.overlayList
          /\ obj' = OnLoadButton(obj, in)
    /\ UNCHANGED callVars

\* lines 629-646; the button is there to push unless the panel is disabled
MelOnClearButton ==
    /\ obj.enabled # "disabled"
    /\ obj' = IF IsMelodicImage(obj.selectedOverlay)
              THEN [MelHandling(obj) EXCEPT
                       !.classification[obj.selectedOverlay] = UnknownLabels,
                       !.event = "cleared"]
              ELSE [MelHandling(obj) EXCEPT !.event = "exception"]
    /\ UNCHANGED callVars

MelodicNext ==
    \/ MelSelectedOverlayChanged
    \/ MelOnLoadButton
    \/ MelOnClearButton

MelodicSpec == MelodicInit /\ [][MelodicNext]_vars

----------------------------------------------------------------------------
(* Claims about MelodicClassificationPanel.                                *)

\* the labels that entry c of a loaded label list gives component c
LabelsOfEntry(entry) == {LowerLabel(entry[i]) : i \in DOMAIN entry}

C29_LoadFailureStops ==
    [][obj'.imageError =>
          /\ obj'.event # "applied"
          /\ obj'.classification = obj.classification
          /\ obj'.overlayList = obj.overlayList
          /\ obj'.selectedOverlay = obj.selectedOverlay]_vars

\* C30: after any handler has finished, the panel is enabled exactly when
\* the selected overlay is a MelodicImage, and the overlay it is registered
\* with is the selected overlay (none when it is disabled).
C30_EnabledIffMelodicSelected ==
    "enabled" \in DOMAIN obj =>
        /\ obj.enabled = "enabled" <=> IsMelodicImage(obj.selectedOverlay)
        /\ obj.overlay = IF obj.enabled = "enabled" THEN obj.selectedOverlay
                         ELSE NoOverlay

----------------------------------------------------------------------------
(* EditTransformPanel (controls/edittransformpanel.py 45-401).  Each       *)
(* handler runs to its end on the event loop.  A transformation is kept    *)
(* for one axis: x goes to s * x + t, with a rotation by 180 degrees       *)
(* turning the axis round.                                                 *)

\* most times the panel is shown or hidden
MaxToggles == 2

\* most requests to close the panel that wait for the event loop
MaxCloseRequests == 1

\* two images and an overlay that is not an Image
EditOverlays == {"imgA", "imgB", "mesh"}

\* line 272
IsImage(o) == o \in {"imgA", "imgB"}

EditSelections == EditOverlays \cup {NoOverlay}

\* np.eye(4)
Eye == [s |-> 1, t |-> 0]

\* transform.concat(a, b): b, then a
Concat(a, b) == [s |-> a.s * b.s, t |-> a.s * b.t + a.t]

\* lines 287-295
WidgetsAtRest == [scale |-> 1, offset |-> 0, rotate |-> 0]

\* the values the user moves the widgets to
WidgetValues ==
    {WidgetsAtRest,
     [scale |-> 2, offset |-> 0, rotate |-> 0],
     [scale |-> 1, offset |-> 1, rotate |-> 0],
     [scale |-> 1, offset |-> 0, rotate |-> 180]}

\* lines 315-335
GetCurrentXform(widgets) ==
    [s |-> (IF widgets.rotate = 180 THEN -1 ELSE 1) * widgets.scale,
     t |-> widgets.offset]

\* the displayXform of the overlay is left as it is
ResetDisplayXform_Keep(displayXform, overlay) == displayXform

\* lines 383, 398
ResetDisplayXform(displayXform, overlay) ==
    [displayXform EXCEPT ![overlay] = Eye]

\* the images as they are loaded
EditImages ==
    [displayXform  |-> [o \in {"imgA", "imgB"} |-> Eye],
     voxToWorldMat |-> [o \in {"imgA", "imgB"} |->
                           IF o = "imgA" THEN [s |-> 2, t |-> 1] ELSE Eye]]

\* lines 259-295, with lines 219-246
EditSelectedOverlayChangedHandler(st) ==
    LET overlay == st.selectedOverlay
    IN  IF overlay = st.overlay THEN st
        ELSE IF ~IsImage(overlay)
        THEN [st EXCEPT !.overlay = NoOverlay, !.enabled = FALSE]
        ELSE [st EXCEPT !.overlay = overlay,
                        !.enabled = TRUE,
                        !.widgets = WidgetsAtRest]

\* lines 45-199: a panel as it is made.  The widgets hold 0 (lines 61-80)
\* and the panel is enabled until the handler says otherwise.
NewEditPanel(st) ==
    EditSelectedOverlayChangedHandler(
        [st EXCEPT !.open    = TRUE,
                   !.overlay = NoOverlay,       \* line 59
                   !.enabled = TRUE,
                   !.widgets = [scale |-> 0, offset |-> 0, rotate |-> 0]])

EditInit ==
    /\ NoCall
    /\ \E sel \in EditSelections :
          obj = NewEditPanel(
                    [open            |-> FALSE,
                     selectedOverlay |-> sel,
                     overlay         |-> NoOverlay,
                     enabled         |-> TRUE,
                     widgets         |-> WidgetsAtRest,
                     displayXform    |-> EditImages.displayXform,
                     voxToWorldMat   |-> EditImages.voxToWorldMat,
                     closeRequests   |-> 0,
                     toggles         |-> 0,
                     event           |-> "none"])

\* lines 192-197: the selected overlay changes
EditSelectedOverlayChanged ==
    /\ \E sel \in EditSelections \ {obj.selectedOverlay} :
          obj' = LET st == [obj EXCEPT !.selectedOverlay = sel,
                                       !.event = "selectedOverlay"]
                 IN  IF obj.open THEN EditSelectedOverlayChangedHandler(st) ELSE st
    /\ UNCHANGED callVars

\* lines 338-354: the user moves a widget
EditXformChanged ==
    /\ obj.open /\ obj.enabled
    /\ \E widgets \in WidgetValues \ {obj.widgets} :
          obj' = IF obj.overlay = NoOverlay
                 THEN [obj EXCEPT !.widgets = widgets, !.event = "xformChanged"]
                 ELSE [obj EXCEPT
                          !.widgets = widgets,
                          !.event   = "xformChanged",
                          !.displayXform[obj.overlay] = GetCurrentXform(widgets)]
    /\ UNCHANGED callVars

\* lines 389-401
OnCancel(st) ==
    [st EXCEPT
        !.displayXform  = IF st.overlay = NoOverlay THEN @
                          ELSE ResetDisplayXform(@, st.overlay),
        !.overlay       = NoOverlay,
        !.closeRequests = @ + 1]

\* lines 357-371
EditOnApply ==
    /\ obj.open /\ obj.enabled
    /\ obj.overlay = NoOverlay \/ obj.closeRequests < MaxCloseRequests
    /\ obj' = IF obj.overlay = NoOverlay
              THEN [obj EXCEPT !.event = "apply"]
              ELSE OnCancel(
                       [obj EXCEPT
                           !.event = "apply",
                           !.voxToWorldMat[obj.overlay] =
                               Concat(@, GetCurrentXform(obj.widgets))])
    /\ UNCHANGED callVars

\* lines 374-386
EditOnReset ==
    /\ obj.open /\ obj.enabled
    /\ obj' = IF obj.overlay = NoOverlay
              THEN [obj EXCEPT !.event = "reset"]
              ELSE EditSelectedOverlayChangedHandler(
                       [obj EXCEPT
                           !.event        = "reset",
                           !.displayXform = ResetDisplayXform(@, obj.overlay),
                           !.overlay      = NoOverlay])
    /\ UNCHANGED callVars

\* lines 389-401
EditOnCancel ==
    /\ obj.open /\ obj.enabled
    /\ obj.closeRequests < MaxCloseRequests
    /\ obj' = OnCancel([obj EXCEPT !.event = "cancel"])
    /\ UNCHANGED callVars

\* OrthoPanel.toggleEditTransformPanel, called from the event loop for a
\* request of line 401 or by the user: an open panel is destroyed (lines
\* 202-216), and a new one made otherwise
EditTogglePanel ==
    /\ obj.toggles < MaxToggles
    /\ \E idle \in BOOLEAN :
          /\ idle => obj.closeRequests > 0
          /\ LET st == [obj EXCEPT
                           !.toggles       = @ + 1,
                           !.event         = "toggle",
                           !.closeRequests = IF idle THEN @ - 1 ELSE @]
             IN  obj' = IF obj.open
                        THEN [st EXCEPT !.open = FALSE, !.overlay = NoOverlay]
                        ELSE NewEditPanel(st)
    /\ UNCHANGED callVars

EditNext ==
    \/ EditSelectedOverlayChanged
    \/ EditXformChanged
    \/ EditOnApply
    \/ EditOnReset
    \/ EditOnCancel
    \/ EditTogglePanel

EditSpec == EditInit /\ [][EditNext]_vars

----------------------------------------------------------------------------
(* Claims about EditTransformPanel.                                        *)

\* a handler of the named kind ran in this step, with an overlay
\* registered or with none
EditStep(event, registered) ==
    /\ obj' # obj
    /\ obj'.event = event
    /\ (obj.overlay # NoOverlay) = registered

\* what a step leaves alone apart from the widgets and the named handler
EditRestUnchanged ==
    /\ obj'.selectedOverlay = obj.selectedOverlay
    /\ obj'.enabled = obj.enabled
    /\ obj'.open = obj.open

\* C26: moving a widget sets the displayXform of the overlay and leaves
\* its voxToWorldMat; Apply sets voxToWorldMat to the old matrix combined
\* with the matrix of the widgets, once, and then does what Cancel does;
\* Cancel resets displayXform to the identity, deregisters the overlay and
\* asks for the panel to be closed; Reset resets displayXform and the
\* widgets (scale 1, offset 0, rotation 0) and keeps the overlay
\* registered; with no overlay registered Apply, Reset and a widget move
\* change nothing; only Apply changes a voxToWorldMat.
C26_PreviewAndCommit ==
    [][/\ EditStep("xformChanged", TRUE) =>
             /\ obj'.voxToWorldMat = obj.voxToWorldMat
             /\ obj'.displayXform =
                   [obj.displayXform EXCEPT ![obj.overlay] =
                       [s |-> (IF obj'.widgets.rotate = 180 THEN -1 ELSE 1)
                                 * obj'.widgets.scale,
                        t |-> obj'.widgets.offset]]
             /\ obj'.overlay = obj.overlay
       /\ EditStep("apply", TRUE) =>
             LET old == obj.voxToWorldMat[obj.overlay]
                 new == [s |-> (IF obj.widgets.rotate = 180 THEN -1 ELSE 1)
                                  * obj.widgets.scale,
                         t |-> obj.widgets.offset]
             IN  /\ obj'.voxToWorldMat =
                       [obj.voxToWorldMat EXCEPT ![obj.overlay] =
                           [s |-> old.s * new.s, t |-> old.s * new.t + old.t]]
                 /\ obj'.displayXform =
                       [obj.displayXform EXCEPT ![obj.overlay] = [s |-> 1, t |-> 0]]
                 /\ obj'.overlay = NoOverlay
                 /\ obj'.closeRequests = obj.closeRequests + 1
       /\ EditStep("cancel", TRUE) =>
             /\ obj'.voxToWorldMat = obj.voxToWorldMat
             /\ obj'.displayXform =
                   [obj.displayXform EXCEPT ![obj.overlay] = [s |-> 1, t |-> 0]]
             /\ obj'.overlay = NoOverlay
             /\ obj'.closeRequests = obj.closeRequests + 1
       /\ EditStep("reset", TRUE) =>
             /\ obj'.voxToWorldMat = obj.voxToWorldMat
             /\ obj'.displayXform =
                   [obj.displayXform EXCEPT ![obj.overlay] = [s |-> 1, t |-> 0]]
             /\ obj'.widgets = [scale |-> 1, offset |-> 0, rotate |-> 0]
             /\ obj'.overlay = obj.overlay
             /\ obj'.closeRequests = obj.closeRequests
       /\ (\E event \in {"xformChanged", "apply", "reset"} : EditStep(event, FALSE)) =>
             /\ obj'.voxToWorldMat = obj.voxToWorldMat
             /\ obj'.displayXform = obj.displayXform
             /\ obj'.overlay = NoOverlay
             /\ obj'.closeRequests = obj.closeRequests
       /\ obj'.voxToWorldMat # obj.voxToWorldMat => obj'.event = "apply"
       /\ (\E event \in {"xformChanged", "apply", "reset", "cancel"} :
              obj' # obj /\ obj'.event = event) => EditRestUnchanged]_vars

\* C26 witness: the second image, with the widgets moved, was applied
\* after the first had been: both matrices are new, both previews reset
C26_Witness ==
    /\ obj # NoValue
    /\ "voxToWorldMat" \in DOMAIN obj
    /\ obj.event = "apply"
    /\ obj.voxToWorldMat["imgA"] = [s |-> 4, t |-> 1]
    /\ obj.voxToWorldMat["imgB"] = [s |-> 1, t |-> 1]
    /\ obj.displayXform["imgB"] = [s |-> 1, t |-> 0]
    /\ obj.overlay = NoOverlay
    /\ obj.closeRequests > 0

\* C28: whenever the panel stops editing an overlay (Apply, Cancel, Reset,
\* or another overlay selected after the widgets were moved), the
\* displayXform of that overlay is the identity.
C28_PreviewNeverLeftBehind ==
    [][(/\ obj.overlay # NoOverlay
        /\ \/ obj'.overlay # obj.overlay
           \/ (obj' # obj /\ obj'.event = "reset"))
          => obj'.displayXform[obj.overlay] = [s |-> 1, t |-> 0]]_vars

====
